---- MODULE Spec2Model ----
(***************************************************************************)
(* Model of the conversation context manager (ai/context/manager.ts) and   *)
(* of one streaming turn of the Slack event handler                        *)
(* (slack/events/index.ts, processMessageAndGenerateResponse) together     *)
(* with the conversation utilities and the agent client it drives.         *)
(***************************************************************************)
EXTENDS Integers, Sequences, FiniteSets, TLC

(***************************************************************************)
(* Bounds of the model.                                                    *)
(***************************************************************************)
MaxCfgContexts == 2

MaxCfgMessages == 3

MaxTtl == 1

MaxTime == 2

MaxLen == 4

MaxEvents == 3

MaxHistory == 2
MaxHeld == 2
MaxArrays == 3
MaxStored == 2
MaxClock == 1000
MaxTurnEvents == 2
MaxFailedCalls == 2
MaxChunkLen == 2
MaxStreamLen == 6
MaxRetryCount == 3

(***************************************************************************)
(* Values.                                                                 *)
(***************************************************************************)
Keys == {"k1", "k2", "k3"}

NoKey == "none"

\* new ContextManager() of the exported singleton
DefaultMaxContexts == 1000

DefaultMaxMessages == 50

DefaultTtlMs == 86400000

\* the thread of the turn, and its inbound message
ThreadKey == "k1"

InboundContent == <<"hi">>

NoTs == 0

NoMeta == "none"

\* data of llm_chunk events; the empty string is ignored by the handler
ChunkData == {"Hel", "lo", ""}

FinalContents == {<<"Hello world">>}

MetaValues == {NoMeta, "model"}

\* thread replies: a user message, a bot message, a message without text
HistoryItems == {[user |-> "human", text |-> <<"hi">>],
                 [user |-> "bot", text |-> <<"Thinking...">>],
                 [user |-> "human", text |-> <<>>]}

\* a text is a sequence of fragments; concatenation of texts is \o
UPDATE_INTERVAL_MS == 750

FinalSleepExtraMs == 100

NoTime == -1

\* the times between two readings of the clock
ClockSteps == {250}

\* keys of the storage, and the entry Map.get has for a missing key
StorageKeys == {"k1", "k2"}

Absent == [userId |-> "undefined", messages |-> 0]

UserIds == {"U1", "U2"}

DEFAULT_SYSTEM_MESSAGE == [role |-> "system", content |-> <<"default">>]

createSystemMessage(instructions) == [role |-> "system", content |-> instructions]

createUserMessage(content) == [role |-> "user", content |-> content]

createAssistantMessage(content) == [role |-> "assistant", content |-> content]

SystemTexts == {<<"ctx">>}

\* messages the callers of addMessage build: user and assistant messages only
CallerMessages == {createUserMessage(<<"u1">>), createUserMessage(<<"u2">>),
                   createAssistantMessage(<<"a1">>), createAssistantMessage(<<"a2">>)}

VARIABLES
    contexts,               \* ContextManager.contexts: Map in insertion order
    maxContexts,            \* ContextManager.maxContexts
    maxMessagesPerContext,  \* ContextManager.maxMessagesPerContext
    contextTtlMs,           \* ContextManager.contextTtlMs
    now,                    \* the wall clock read by new Date()
    keyDomain,              \* thread keys the callers refer to
    msgDomain,              \* messages the callers append
    lenCap,                 \* list length up to which the callers append
    lastOp,                 \* the last ContextManager call and its result
    \* one turn of processMessageAndGenerateResponse
    pc,                     \* the await the turn is suspended at
    botUserId,              \* module-level botUserId is set
    thinkingMessageTs,      \* ts of the placeholder, 0 while undefined
    lastMessageTs,          \* ts of the message being edited, 0 while undefined
    accumulatedContent,     \* text accumulated from the stream
    finalMetadata,          \* metadata of the final_message event
    updateScheduled,        \* the flag of scheduleUpdate
    armedTimers,            \* setTimeout callbacks of scheduleUpdate not yet run
    thrCalls,               \* chat.update calls of the callbacks awaiting Slack
    toolCallsData,          \* the tool_calls event being handled names a tool
    eventsLeft,             \* events the backend may still send
    slackMsgs,              \* what Slack shows for the messages of the turn
    startMessages,          \* the thread's message list when the turn started
    errorRenders,           \* error renders sent to Slack by the turn
    commits,                \* calls of addAssistantMessageToThread by the turn
    finalRender,            \* progress of the final update after the stream
    lastIssued,             \* the last chat.postMessage / chat.update sent
    finalEventContent,      \* content of the last final_message that had one
    slackFailed,            \* a call to Slack has failed during the turn
    outcome,                \* how the turn ended
    \* InMemoryContextStorage and the objects its callers hold
    storage,                \* InMemoryContextStorage.storage
    arrays,                 \* the messages arrays on the heap, by reference
    held,                   \* context objects the callers hold
    storeOp,                \* the last step of the storage or of a caller
    \* the clock of a turn, read from now
    timerDue,               \* when the timer of scheduleUpdate is due
    sleepDue,               \* when the sleep before the final update is over
    firstDeltaAt,           \* arrival of the first llm_chunk event
    lastDeltaAt,            \* arrival of the last llm_chunk event
    updateCalls,            \* updateMessage calls of scheduleUpdate and the final update
    \* concurrent turns: the locals of each call and what they share
    turns,                  \* the locals of each call of processMessageAndGenerateResponse
    thread,                 \* the messages Slack shows, with who posted and who edited
    failedCalls,            \* calls to Slack or to the backend that have failed
    eventsUsed,             \* events the backend has sent to the turns
    backfills,              \* thread-replies fetches that returned, per thread
    lastEvent,              \* the event a turn has just taken from its stream
    \* generateResponseStream
    genPc,                  \* where the generator is
    buffer,                 \* the local buffer
    streamed,               \* the bytes the response stream has delivered
    received,               \* the text of the chunks read, as decoded
    yielded,                \* the events yielded so far
    \* MCPClient
    retryCount,             \* config.retryCount
    mcpPc,                  \* where callWithRetry is
    attempt,                \* its loop counter
    lastError,              \* its local lastError
    mcpResponses,           \* what its calls of call() returned, in order
    mcpReturned             \* what it returned

cfgVars == <<maxContexts, maxMessagesPerContext, contextTtlMs,
             keyDomain, msgDomain, lenCap>>

cmVars == <<contexts, cfgVars, now, lastOp>>

turnVars == <<pc, botUserId, thinkingMessageTs, lastMessageTs,
              accumulatedContent, finalMetadata, updateScheduled, armedTimers,
              thrCalls, toolCallsData, eventsLeft, slackMsgs, startMessages,
              errorRenders, commits, finalRender, lastIssued,
              finalEventContent, slackFailed, outcome>>

storeVars == <<storage, arrays, held, storeOp>>

burstVars == <<timerDue, sleepDue, firstDeltaAt, lastDeltaAt, updateCalls>>

multiVars == <<turns, thread, failedCalls, eventsUsed, backfills, lastEvent>>

genVars == <<genPc, buffer, streamed, received, yielded>>

mcpVars == <<retryCount, mcpPc, attempt, lastError, mcpResponses, mcpReturned>>

vars == <<cmVars, turnVars, storeVars, burstVars, multiVars, genVars, mcpVars>>

(***************************************************************************)
(* The Map of contexts: a sequence of entries in insertion order.          *)
(***************************************************************************)
Min(a, b) == IF a < b THEN a ELSE b

Max(a, b) == IF a > b THEN a ELSE b

RemoveAt(s, i) == SubSeq(s, 1, i - 1) \o SubSeq(s, i + 1, Len(s))

\* Array.prototype.slice(start): a negative start counts from the end
JsSlice(s, start) ==
    LET n == Len(s)
        b == IF start < 0 THEN Max(n + start, 0) ELSE Min(start, n)
    IN  SubSeq(s, b + 1, n)

KeyIndex(cs, k) ==
    IF \E i \in 1..Len(cs) : cs[i].key = k
    THEN CHOOSE i \in 1..Len(cs) : cs[i].key = k
    ELSE 0

HasKey(cs, k) == KeyIndex(cs, k) # 0

MapGet(cs, k) == cs[KeyIndex(cs, k)]

\* Map.set: an existing key keeps its position, a new key goes last
MapSet(cs, k, ctx) ==
    IF HasKey(cs, k)
    THEN [cs EXCEPT ![KeyIndex(cs, k)] = ctx]
    ELSE Append(cs, ctx)

MapDelete(cs, k) ==
    IF HasKey(cs, k) THEN RemoveAt(cs, KeyIndex(cs, k)) ELSE cs

KeysOf(cs) == {cs[i].key : i \in 1..Len(cs)}

(***************************************************************************)
(* ContextManager                                                          *)
(***************************************************************************)
\* the scan keeps the first entry whose lastUpdated is strictly smallest
OldestIndex(cs) ==
    CHOOSE i \in 1..Len(cs) :
        /\ \A j \in 1..Len(cs) : cs[i].lastUpdated <= cs[j].lastUpdated
        /\ \A j \in 1..(i - 1) : cs[j].lastUpdated > cs[i].lastUpdated

\* variant: the scan keeps the entry updated last
evictNewestContext(cs) ==
    IF Len(cs) = 0 THEN cs
    ELSE RemoveAt(cs, CHOOSE i \in 1..Len(cs) :
                          \A j \in 1..Len(cs) : cs[i].lastUpdated >= cs[j].lastUpdated)

evictOldestContext(cs) ==
    IF Len(cs) = 0 THEN cs ELSE RemoveAt(cs, OldestIndex(cs))

\* variant: the capacity test lets the map grow to maxContexts + 1
createContextLateCheck(cs, k, t) ==
    LET cs1 == IF Len(cs) > maxContexts THEN evictOldestContext(cs) ELSE cs
        context == [key |-> k,
                    messages |-> <<DEFAULT_SYSTEM_MESSAGE>>,
                    lastUpdated |-> t]
    IN  MapSet(cs1, k, context)

createContext(cs, k, t) ==
    LET cs1 == IF Len(cs) >= maxContexts THEN evictOldestContext(cs) ELSE cs
        context == [key |-> k,
                    messages |-> <<DEFAULT_SYSTEM_MESSAGE>>,
                    lastUpdated |-> t]
    IN  MapSet(cs1, k, context)

\* variant: a context is created whether or not the key is present
getOrCreateContextAlwaysCreating(cs, k, t) == createContext(cs, k, t)

getOrCreateContext(cs, k, t) ==
    IF HasKey(cs, k) THEN cs ELSE createContext(cs, k, t)

TrimMessages(pushed) ==
    IF Len(pushed) > maxMessagesPerContext
    THEN <<pushed[1]>> \o JsSlice(pushed, -(maxMessagesPerContext - 1))
    ELSE pushed

\* variant: the message is appended and lastUpdated is left as it was
addMessageKeepingTimestamp(cs, k, message, t) ==
    LET cs1 == getOrCreateContext(cs, k, t)
        context == MapGet(cs1, k)
        pushed == Append(context.messages, message)
    IN  MapSet(cs1, k, [context EXCEPT !.messages = TrimMessages(pushed)])

addMessage(cs, k, message, t) ==
    LET cs1 == getOrCreateContext(cs, k, t)
        context == MapGet(cs1, k)
        pushed == Append(context.messages, message)
    IN  MapSet(cs1, k, [context EXCEPT !.messages = TrimMessages(pushed),
                                       !.lastUpdated = t])

\* variant: the list is trimmed to maxMessagesPerContext as in addMessage
updateSystemMessageTrimming(cs, k, systemMessage, t) ==
    LET cs1 == getOrCreateContext(cs, k, t)
        context == MapGet(cs1, k)
        msgs == context.messages
        msgs1 == IF Len(msgs) > 0 /\ msgs[1].role = "system"
                 THEN [msgs EXCEPT ![1] = createSystemMessage(systemMessage)]
                 ELSE <<createSystemMessage(systemMessage)>> \o msgs
    IN  MapSet(cs1, k, [context EXCEPT !.messages = TrimMessages(msgs1),
                                       !.lastUpdated = t])

updateSystemMessage(cs, k, systemMessage, t) ==
    LET cs1 == getOrCreateContext(cs, k, t)
        context == MapGet(cs1, k)
        msgs == context.messages
        msgs1 == IF Len(msgs) > 0 /\ msgs[1].role = "system"
                 THEN [msgs EXCEPT ![1] = createSystemMessage(systemMessage)]
                 ELSE <<createSystemMessage(systemMessage)>> \o msgs
    IN  MapSet(cs1, k, [context EXCEPT !.messages = msgs1, !.lastUpdated = t])

\* variant: messages[0] is kept whatever its role
clearContextKeepingFirst(cs, k, keepSystemMessage, t) ==
    IF ~HasKey(cs, k) THEN cs
    ELSE LET context == MapGet(cs, k)
             msgs == context.messages
             msgs1 == IF keepSystemMessage /\ Len(msgs) > 0
                      THEN <<msgs[1]>>
                      ELSE <<>>
         IN  MapSet(cs, k, [context EXCEPT !.messages = msgs1, !.lastUpdated = t])

\* variant: clearContext reports success whether or not it found a context
clearContextReturnsAlways(cs, k) == TRUE

\* the boolean clearContext returns
clearContextReturns(cs, k) == HasKey(cs, k)

clearContext(cs, k, keepSystemMessage, t) ==
    IF ~HasKey(cs, k) THEN cs
    ELSE LET context == MapGet(cs, k)
             msgs == context.messages
             msgs1 == IF keepSystemMessage /\ Len(msgs) > 0 /\ msgs[1].role = "system"
                      THEN <<msgs[1]>>
                      ELSE <<>>
         IN  MapSet(cs, k, [context EXCEPT !.messages = msgs1, !.lastUpdated = t])

\* the boolean deleteContext returns: the result of Map.delete
deleteContextReturns(cs, k) == HasKey(cs, k)

deleteContext(cs, k) == MapDelete(cs, k)

\* what a read hands back for a key without context: undefined
NoContext == [present |-> FALSE, key |-> NoKey, messages |-> <<>>, lastUpdated |-> 0]

\* ContextManager.getContext: Map.get, the context itself or undefined
ManagerGetContext(cs, k) ==
    IF HasKey(cs, k)
    THEN [present |-> TRUE, key |-> k, messages |-> MapGet(cs, k).messages,
          lastUpdated |-> MapGet(cs, k).lastUpdated]
    ELSE NoContext

\* Array.from(this.contexts.values())
getAllContexts(cs) == cs

\* variant: a context whose age equals the TTL already counts as expired
ExpiredAtTtl(ctx, t) == t - ctx.lastUpdated >= contextTtlMs

Expired(ctx, t) == t - ctx.lastUpdated > contextTtlMs

cleanupExpiredContexts(cs, t) == SelectSeq(cs, LAMBDA ctx : ~Expired(ctx, t))

(***************************************************************************)
(* Calls of the ContextManager API.                                        *)
(***************************************************************************)
\* bookkeeping of a call: its name, its key, the key createContext evicted
\* and the number of contexts the sweep removed
Op(name, k, ev, n) == [op |-> name, key |-> k, evicted |-> ev, removed |-> n]

Creates(cs, name, k) ==
    \/ name = "createContext"
    \/ name \in {"getOrCreateContext", "addMessage", "updateSystemMessage"}
          /\ ~HasKey(cs, k)

EvictedBy(cs, name, k) ==
    IF Creates(cs, name, k) /\ Len(cs) >= maxContexts /\ Len(cs) > 0
    THEN cs[OldestIndex(cs)].key
    ELSE NoKey

CallCreateContext ==
    \E k \in keyDomain :
        /\ contexts' = createContext(contexts, k, now)
        /\ lastOp' = Op("createContext", k, EvictedBy(contexts, "createContext", k), 0)
        /\ UNCHANGED <<cfgVars, now, turnVars, storeVars, burstVars, multiVars, genVars, mcpVars>>

CallGetOrCreateContext ==
    \E k \in keyDomain :
        /\ contexts' = getOrCreateContext(contexts, k, now)
        /\ lastOp' = Op("getOrCreateContext", k, EvictedBy(contexts, "getOrCreateContext", k), 0)
        /\ UNCHANGED <<cfgVars, now, turnVars, storeVars, burstVars, multiVars, genVars, mcpVars>>

CallAddMessage ==
    \E k \in keyDomain, m \in msgDomain :
        /\ HasKey(contexts, k) => Len(MapGet(contexts, k).messages) <= lenCap
        /\ contexts' = addMessage(contexts, k, m, now)
        /\ lastOp' = Op("addMessage", k, EvictedBy(contexts, "addMessage", k), 0)
        /\ UNCHANGED <<cfgVars, now, turnVars, storeVars, burstVars, multiVars, genVars, mcpVars>>

CallUpdateSystemMessage ==
    \E k \in keyDomain, s \in SystemTexts :
        /\ HasKey(contexts, k) => Len(MapGet(contexts, k).messages) < lenCap
        /\ contexts' = updateSystemMessage(contexts, k, s, now)
        /\ lastOp' = Op("updateSystemMessage", k, EvictedBy(contexts, "updateSystemMessage", k), 0)
        /\ UNCHANGED <<cfgVars, now, turnVars, storeVars, burstVars, multiVars, genVars, mcpVars>>

CallClearContext ==
    \E k \in keyDomain, keep \in BOOLEAN :
        /\ contexts' = clearContext(contexts, k, keep, now)
        /\ lastOp' = [op |-> "clearContext", key |-> k,
                       evicted |-> EvictedBy(contexts, "clearContext", k),
                       removed |-> 0,
                       keepSystemMessage |-> keep,
                       returned |-> clearContextReturns(contexts, k)]
        /\ UNCHANGED <<cfgVars, now, turnVars, storeVars, burstVars, multiVars, genVars, mcpVars>>

CallDeleteContext ==
    \E k \in keyDomain :
        /\ contexts' = deleteContext(contexts, k)
        /\ lastOp' = [op |-> "deleteContext", key |-> k,
                       evicted |-> EvictedBy(contexts, "deleteContext", k),
                       removed |-> 0,
                       returned |-> deleteContextReturns(contexts, k)]
        /\ UNCHANGED <<cfgVars, now, turnVars, storeVars, burstVars, multiVars, genVars, mcpVars>>

\* the setInterval callback of the constructor
\* variant: the sweep is set up with setTimeout and runs once, before any
\* context can have expired
SweepTimerOnce ==
    /\ now = 0
    /\ contexts' = cleanupExpiredContexts(contexts, now)
    /\ lastOp' = Op("cleanupExpiredContexts", NoKey, NoKey,
                    Len(contexts) - Len(cleanupExpiredContexts(contexts, now)))
    /\ UNCHANGED <<cfgVars, now, turnVars, storeVars, burstVars, multiVars, genVars, mcpVars>>

\* the callback of setInterval(() => this.cleanupExpiredContexts(), ttl / 2)
SweepTimer ==
    /\ contexts' = cleanupExpiredContexts(contexts, now)
    /\ lastOp' = Op("cleanupExpiredContexts", NoKey, NoKey,
                    Len(contexts) - Len(cleanupExpiredContexts(contexts, now)))
    /\ UNCHANGED <<cfgVars, now, turnVars, storeVars, burstVars, multiVars, genVars, mcpVars>>

Tick ==
    /\ now < MaxTime
    /\ now' = now + 1
    /\ lastOp' = Op("tick", NoKey, NoKey, 0)
    /\ UNCHANGED <<contexts, cfgVars, turnVars, storeVars, burstVars, multiVars, genVars, mcpVars>>

\* the locals of processMessageAndGenerateResponse before a turn
TurnIdle ==
    /\ pc = "idle"
    /\ thinkingMessageTs = NoTs
    /\ lastMessageTs = NoTs
    /\ accumulatedContent = <<>>
    /\ finalMetadata = NoMeta
    /\ updateScheduled = FALSE
    /\ armedTimers = 0
    /\ thrCalls = <<>>
    /\ toolCallsData = FALSE
    /\ eventsLeft = MaxEvents
    /\ slackMsgs = <<>>
    /\ errorRenders = 0
    /\ commits = 0
    /\ finalRender = "none"
    /\ lastIssued = [call |-> "none", ts |-> NoTs,
                     render |-> [kind |-> "none", text |-> <<>>, meta |-> NoMeta]]
    /\ finalEventContent = [has |-> FALSE, text |-> <<>>]
    /\ slackFailed = FALSE
    /\ outcome = "running"

\* no timer armed, no event arrived, no update sent
ClockIdle ==
    /\ timerDue = NoTime
    /\ sleepDue = NoTime
    /\ firstDeltaAt = NoTime
    /\ lastDeltaAt = NoTime
    /\ updateCalls = 0

\* the calls of processMessageAndGenerateResponse that may be in flight
TurnIds == {1, 2}

\* the locals of a call before it runs, and what the model notes about it:
\* the thread of the call and whether it found a context or requested the
\* replies of the thread
NewTurn ==
    [pc |-> "idle", key |-> NoKey,
     thinkingMessageTs |-> NoTs, lastMessageTs |-> NoTs,
     accumulatedContent |-> <<>>, finalMetadata |-> NoMeta,
     updateScheduled |-> FALSE, armedTimers |-> 0, thrCalls |-> <<>>,
     toolCallsData |-> FALSE, conversationHistory |-> <<>>,
     prep |-> "none", outcome |-> "running"]

\* no event has just been taken
NoEvent == [turn |-> 0, type |-> "none"]

\* no call in flight, no message in the threads
TurnsIdle ==
    /\ turns = [t \in TurnIds |-> NewTurn]
    /\ thread = <<>>
    /\ failedCalls = 0
    /\ eventsUsed = 0
    /\ backfills = <<>>
    /\ lastEvent = NoEvent

\* generateResponseStream called and not yet started
GeneratorIdle ==
    /\ genPc = "connect"
    /\ buffer = <<>>
    /\ streamed = <<>>
    /\ received = <<>>
    /\ yielded = <<>>

\* config.retryCount of new MCPClient()
DefaultRetryCount == 3

NoResponse == [status |-> "none", code |-> "none"]

\* the MCPClient of the module, no callWithRetry started
McpIdle ==
    /\ retryCount = DefaultRetryCount
    /\ mcpPc = "idle"
    /\ attempt = 0
    /\ lastError = NoResponse
    /\ mcpResponses = <<>>
    /\ mcpReturned = NoResponse

\* new InMemoryContextStorage(), and callers holding no context object
StorageEmpty ==
    /\ storage = [k \in StorageKeys |-> Absent]
    /\ arrays = <<>>
    /\ held = <<>>
    /\ storeOp = "constructor"

\* new ContextManager(maxContexts, maxMessagesPerContext, contextTtlHours)
InitManager ==
    /\ contexts = <<>>
    /\ maxContexts \in 1..MaxCfgContexts
    /\ maxMessagesPerContext \in 1..MaxCfgMessages
    /\ contextTtlMs \in 1..MaxTtl
    /\ now = 0
    /\ lastOp = Op("constructor", NoKey, NoKey, 0)
    /\ botUserId = FALSE
    /\ startMessages = [present |-> FALSE, messages |-> <<>>]
    /\ TurnIdle
    /\ StorageEmpty
    /\ ClockIdle
    /\ TurnsIdle
    /\ GeneratorIdle
    /\ McpIdle

\* several threads, one kind of appended message
Init ==
    /\ InitManager
    /\ keyDomain = Keys
    /\ msgDomain = {createUserMessage(<<"u1">>)}
    /\ lenCap = MaxLen - 3

\* one thread, every kind of appended message
InitMessages ==
    /\ InitManager
    /\ keyDomain = {"k1"}
    /\ msgDomain = CallerMessages
    /\ lenCap = MaxLen

Next ==
    \/ CallCreateContext
    \/ CallGetOrCreateContext
    \/ CallAddMessage
    \/ CallUpdateSystemMessage
    \/ CallClearContext
    \/ CallDeleteContext
    \/ SweepTimer
    \/ Tick

Spec == Init /\ [][Next]_vars

SpecMessages == InitMessages /\ [][Next]_vars

\* two threads; time passes and the interval timer of the sweep keeps firing
InitSweep ==
    /\ InitManager
    /\ keyDomain = {"k1", "k2"}
    /\ msgDomain = {createUserMessage(<<"u1">>)}
    /\ lenCap = MaxLen - 3

SpecSweep ==
    /\ InitSweep
    /\ [][Next]_vars
    /\ WF_vars(Tick)
    /\ WF_vars(SweepTimer)

\* the reads of the ContextManager: they return and leave the map alone
CallManagerGetContext ==
    \E k \in keyDomain :
        /\ lastOp' = [op |-> "getContext", key |-> k, evicted |-> NoKey,
                       removed |-> 0,
                       returned |-> ManagerGetContext(contexts, k)]
        /\ UNCHANGED <<contexts, cfgVars, now, turnVars, storeVars, burstVars, multiVars, genVars, mcpVars>>

CallGetAllContexts ==
    /\ lastOp' = [op |-> "getAllContexts", key |-> NoKey, evicted |-> NoKey,
                   removed |-> 0,
                   returned |-> getAllContexts(contexts)]
    /\ UNCHANGED <<contexts, cfgVars, now, turnVars, storeVars, burstVars, multiVars, genVars, mcpVars>>

\* two threads, one kind of appended message
InitReads ==
    /\ InitManager
    /\ keyDomain = {"k1", "k2"}
    /\ msgDomain = {createUserMessage(<<"u1">>)}
    /\ lenCap = MaxLen - 3

NextReads ==
    \/ CallCreateContext
    \/ CallGetOrCreateContext
    \/ CallAddMessage
    \/ CallUpdateSystemMessage
    \/ CallClearContext
    \/ CallDeleteContext
    \/ CallManagerGetContext
    \/ CallGetAllContexts
    \/ SweepTimer
    \/ Tick

SpecReads == InitReads /\ [][NextReads]_vars

(***************************************************************************)
(* Block Kit renders (slack/utils/block-kit.ts): what a message shows.     *)
(***************************************************************************)
IsBlank(content) == \A i \in 1..Len(content) : content[i] \in {"", " "}

\* aiResponseMessage shows '(no content)' for a blank text
aiResponseMessage(content, metadata) ==
    [kind |-> "ai",
     text |-> IF IsBlank(content) THEN <<"(no content)">> ELSE content,
     meta |-> metadata]

errorMessage(title) == [kind |-> "error", text |-> <<title>>, meta |-> NoMeta]

loadingMessage(message) == [kind |-> "loading", text |-> <<message>>, meta |-> NoMeta]

NoRender == [kind |-> "none", text |-> <<>>, meta |-> NoMeta]

Issue(call, ts, render) == [call |-> call, ts |-> ts, render |-> render]

NoCall == Issue("none", NoTs, NoRender)

\* chat.postMessage appends a message to the thread; its ts is its index
SlackPost(msgs, render) == Append(msgs, render)

\* chat.update replaces what the message shows
SlackUpdate(msgs, ts, render) == [msgs EXCEPT ![ts] = render]

(***************************************************************************)
(* Conversation utilities (slack/utils/conversation.ts).                   *)
(***************************************************************************)
slackMessageToConversationMessage(message) ==
    [role |-> IF message.user = "bot" THEN "assistant" ELSE "user",
     content |-> message.text]

addUserMessageToThread(cs, content, t) ==
    addMessage(cs, ThreadKey, createUserMessage(content), t)

addAssistantMessageToThread(cs, content, t) ==
    addMessage(cs, ThreadKey, createAssistantMessage(content), t)

getThreadHistory(cs) ==
    IF HasKey(cs, ThreadKey) THEN MapGet(cs, ThreadKey).messages ELSE <<>>

\* initializeContextFromHistory returns early on a context with messages
ContextAlreadyExists(cs) ==
    HasKey(cs, ThreadKey) /\ Len(MapGet(cs, ThreadKey).messages) > 0

RECURSIVE AddHistory(_, _, _)
AddHistory(cs, messages, t) ==
    IF messages = <<>> THEN cs
    ELSE LET message == Head(messages)
             cs1 == IF message.text = <<>>
                    THEN cs
                    ELSE addMessage(cs, ThreadKey,
                                    slackMessageToConversationMessage(message), t)
         IN  AddHistory(cs1, Tail(messages), t)

\* the part of initializeContextFromHistory after the replies are fetched
initializeContextFromHistory(cs, messages, t) ==
    AddHistory(createContext(cs, ThreadKey, t), messages, t)

Histories == UNION {[1..n -> HistoryItems] : n \in 0..MaxHistory}

(***************************************************************************)
(* One turn: processMessageAndGenerateResponse.  An action runs the code   *)
(* from one await to the next; a call to Slack or to the backend is sent   *)
(* by the action that reaches it and returns in the action named after it. *)
(***************************************************************************)
handleVars == <<thinkingMessageTs, lastMessageTs>>

streamVars == <<accumulatedContent, finalMetadata, finalEventContent, eventsLeft>>

timerVars == <<updateScheduled, armedTimers, thrCalls>>

commitVars == <<commits, finalRender>>

ThinkingRender == loadingMessage("Thinking...")

ToolRender == loadingMessage("tool")

\* catch (error): edit the placeholder if there is one, else post a message
CatchError ==
    /\ errorRenders' = errorRenders + 1
    /\ IF thinkingMessageTs # NoTs
       THEN /\ pc' = "w_catchUpdate"
            /\ lastIssued' = Issue("update", thinkingMessageTs,
                                   errorMessage("Error Processing Request"))
       ELSE /\ pc' = "w_catchPost"
            /\ lastIssued' = Issue("post", NoTs,
                                   errorMessage("Error Processing Request"))
    /\ UNCHANGED outcome

\* case 'error': write the error render to the active message and return
HandleErrorEvent ==
    IF lastMessageTs # NoTs
    THEN /\ pc' = "w_errorRender"
         /\ errorRenders' = errorRenders + 1
         /\ lastIssued' = Issue("update", lastMessageTs, errorMessage("Agent Error"))
         /\ UNCHANGED outcome
    ELSE /\ pc' = "done"
         /\ outcome' = "failed"
         /\ UNCHANGED <<errorRenders, lastIssued>>

\* variant: scheduleUpdate() without the test of the flag
ScheduleUpdateUngated ==
    /\ updateScheduled' = TRUE
    /\ armedTimers' = armedTimers + 1

\* scheduleUpdate(): arm one timer unless the flag is set
ScheduleUpdate ==
    IF updateScheduled
    THEN UNCHANGED <<updateScheduled, armedTimers>>
    ELSE /\ updateScheduled' = TRUE
         /\ armedTimers' = armedTimers + 1

TurnStart ==
    /\ pc = "idle"
    /\ IF botUserId
       THEN /\ pc' = "w_thinking"
            /\ lastIssued' = Issue("post", NoTs, ThinkingRender)
       ELSE /\ pc' = "w_auth"
            /\ UNCHANGED lastIssued
    /\ UNCHANGED <<burstVars, multiVars, genVars, mcpVars, storeVars, slackFailed, cmVars, botUserId,
                   handleVars, streamVars, timerVars, toolCallsData,
                   slackMsgs, startMessages, errorRenders, commitVars,
                   outcome>>

\* client.auth.test() returns or throws
AuthReturns ==
    /\ pc = "w_auth"
    /\ \E ok \in BOOLEAN :
          IF ok
          THEN /\ botUserId' = TRUE
               /\ pc' = "w_thinking"
               /\ lastIssued' = Issue("post", NoTs, ThinkingRender)
               /\ UNCHANGED errorRenders
          ELSE /\ pc' = "w_initError"
               /\ errorRenders' = errorRenders + 1
               /\ lastIssued' = Issue("post", NoTs, errorMessage("Bot Initialization Error"))
               /\ UNCHANGED botUserId
    /\ UNCHANGED <<burstVars, multiVars, genVars, mcpVars, storeVars, slackFailed, cmVars, handleVars,
                   streamVars, timerVars, toolCallsData, slackMsgs,
                   startMessages, commitVars, outcome>>

\* sendErrorMessage of the bot-id catch returns or throws into the outer catch
InitErrorPostReturns ==
    /\ pc = "w_initError"
    /\ \E ok \in BOOLEAN :
       /\ slackFailed' = (slackFailed \/ ~ok)
       /\ IF ok
          THEN /\ slackMsgs' = SlackPost(slackMsgs, errorMessage("Bot Initialization Error"))
               /\ pc' = "done"
               /\ outcome' = "failed"
               /\ UNCHANGED <<errorRenders, lastIssued>>
          ELSE /\ CatchError
               /\ UNCHANGED slackMsgs
    /\ UNCHANGED <<burstVars, multiVars, genVars, mcpVars, storeVars, cmVars, botUserId, handleVars,
                   streamVars, timerVars, toolCallsData, startMessages,
                   commitVars>>

\* sendErrorMessage of the outer catch returns, or throws out of the turn
CatchPostReturns ==
    /\ pc = "w_catchPost"
    /\ \E ok \in BOOLEAN :
       /\ slackFailed' = (slackFailed \/ ~ok)
       /\ slackMsgs' = IF ok
                       THEN SlackPost(slackMsgs, errorMessage("Error Processing Request"))
                       ELSE slackMsgs
    /\ pc' = "done"
    /\ outcome' = "failed"
    /\ UNCHANGED <<burstVars, multiVars, genVars, mcpVars, storeVars, cmVars, botUserId, handleVars,
                   streamVars, timerVars, toolCallsData, startMessages,
                   errorRenders, commitVars, lastIssued>>

\* updateMessage of the outer catch returns, or its failure is logged
CatchUpdateReturns ==
    /\ pc = "w_catchUpdate"
    /\ \E ok \in BOOLEAN :
       /\ slackFailed' = (slackFailed \/ ~ok)
       /\ slackMsgs' = IF ok
                       THEN SlackUpdate(slackMsgs, thinkingMessageTs,
                                        errorMessage("Error Processing Request"))
                       ELSE slackMsgs
    /\ pc' = "done"
    /\ outcome' = "failed"
    /\ UNCHANGED <<burstVars, multiVars, genVars, mcpVars, storeVars, cmVars, botUserId, handleVars,
                   streamVars, timerVars, toolCallsData, startMessages,
                   errorRenders, commitVars, lastIssued>>

\* the placeholder post returns; the context is resolved, or the replies
\* of the thread are requested
ThinkingReturns ==
    /\ pc = "w_thinking"
    /\ \E ok \in BOOLEAN :
       /\ slackFailed' = (slackFailed \/ ~ok)
       /\ IF ok
          THEN /\ slackMsgs' = SlackPost(slackMsgs, ThinkingRender)
               /\ thinkingMessageTs' = Len(slackMsgs) + 1
               /\ lastMessageTs' = Len(slackMsgs) + 1
               /\ IF ContextAlreadyExists(contexts)
                  THEN /\ contexts' = addUserMessageToThread(contexts, InboundContent, now)
                       /\ pc' = "w_connect"
                  ELSE /\ pc' = "w_history"
                       /\ UNCHANGED contexts
               /\ UNCHANGED <<errorRenders, lastIssued, outcome>>
          ELSE /\ CatchError
               /\ UNCHANGED <<slackMsgs, handleVars, contexts>>
    /\ UNCHANGED <<burstVars, multiVars, genVars, mcpVars, storeVars, cfgVars, now, lastOp, botUserId,
                   streamVars, timerVars, toolCallsData, startMessages,
                   commitVars>>

\* conversations.replies returns: the context is created and backfilled and
\* the inbound message appended; or it throws
HistoryReturns ==
    /\ pc = "w_history"
    /\ \/ \E messages \in Histories :
             /\ contexts' = addUserMessageToThread(
                                initializeContextFromHistory(contexts, messages, now),
                                InboundContent, now)
             /\ pc' = "w_connect"
             /\ UNCHANGED <<errorRenders, lastIssued, outcome>>
       \/ /\ CatchError
          /\ UNCHANGED contexts
    /\ UNCHANGED <<burstVars, multiVars, genVars, mcpVars, storeVars, slackFailed, cfgVars, now, lastOp,
                   botUserId, handleVars, streamVars, timerVars,
                   toolCallsData, slackMsgs, startMessages, commitVars>>

\* axios.post of generateResponseStream returns the stream, or throws and
\* the generator yields one error event
ConnectReturns ==
    /\ pc = "w_connect"
    /\ \E ok \in BOOLEAN :
          IF ok
          THEN /\ pc' = "stream"
               /\ UNCHANGED <<errorRenders, lastIssued, outcome>>
          ELSE HandleErrorEvent
    /\ UNCHANGED <<burstVars, multiVars, genVars, mcpVars, storeVars, slackFailed, cmVars, botUserId,
                   handleVars, streamVars, timerVars, toolCallsData,
                   slackMsgs, startMessages, commitVars>>

\* case 'llm_chunk'
EvChunkStep ==
    /\ pc = "stream"
    /\ eventsLeft > 0
    /\ eventsLeft' = eventsLeft - 1
    /\ \E data \in ChunkData :
          IF data # ""
          THEN /\ accumulatedContent' = accumulatedContent \o <<data>>
               /\ ScheduleUpdate
          ELSE UNCHANGED <<accumulatedContent, updateScheduled, armedTimers>>
    /\ UNCHANGED <<storeVars, slackFailed, cmVars, pc, botUserId, handleVars,
                   finalMetadata, finalEventContent, thrCalls, toolCallsData,
                   slackMsgs, startMessages, errorRenders, commitVars,
                   lastIssued, outcome>>

EvChunk == EvChunkStep /\ UNCHANGED <<burstVars, multiVars, genVars, mcpVars>>

\* variant: the interstitial message is posted without the flush
EvToolCallsPostFirst ==
    /\ pc = "stream"
    /\ eventsLeft > 0
    /\ eventsLeft' = eventsLeft - 1
    /\ \E named \in BOOLEAN :
          /\ toolCallsData' = named
          /\ IF named
             THEN /\ pc' = "w_toolPost"
                  /\ lastIssued' = Issue("post", NoTs, ToolRender)
             ELSE UNCHANGED <<pc, lastIssued>>
    /\ UNCHANGED <<burstVars, multiVars, genVars, mcpVars, storeVars, slackFailed, cmVars, botUserId,
                   handleVars, accumulatedContent, finalMetadata,
                   finalEventContent, timerVars, slackMsgs, startMessages,
                   errorRenders, commitVars, outcome>>

\* case 'tool_calls': flush the text to the active message
EvToolCalls ==
    /\ pc = "stream"
    /\ eventsLeft > 0
    /\ eventsLeft' = eventsLeft - 1
    /\ \E named \in BOOLEAN :
          /\ toolCallsData' = named
          /\ IF lastMessageTs # NoTs
             THEN /\ pc' = "w_toolFlush"
                  /\ lastIssued' = Issue("update", lastMessageTs,
                                         aiResponseMessage(accumulatedContent, NoMeta))
             ELSE IF named
                  THEN /\ pc' = "w_toolPost"
                       /\ lastIssued' = Issue("post", NoTs, ToolRender)
                  ELSE UNCHANGED <<pc, lastIssued>>
    /\ UNCHANGED <<burstVars, multiVars, genVars, mcpVars, storeVars, slackFailed, cmVars, botUserId,
                   handleVars, accumulatedContent, finalMetadata,
                   finalEventContent, timerVars, slackMsgs, startMessages,
                   errorRenders, commitVars, outcome>>

\* the flush of 'tool_calls' returns; the interstitial message is posted
ToolFlushReturns ==
    /\ pc = "w_toolFlush"
    /\ \E ok \in BOOLEAN :
       /\ slackFailed' = (slackFailed \/ ~ok)
       /\ IF ok
          THEN /\ slackMsgs' = SlackUpdate(slackMsgs, lastMessageTs,
                                           aiResponseMessage(accumulatedContent, NoMeta))
               /\ IF toolCallsData
                  THEN /\ pc' = "w_toolPost"
                       /\ lastIssued' = Issue("post", NoTs, ToolRender)
                  ELSE /\ pc' = "stream"
                       /\ UNCHANGED lastIssued
               /\ UNCHANGED <<errorRenders, outcome>>
          ELSE /\ CatchError
               /\ UNCHANGED slackMsgs
    /\ UNCHANGED <<burstVars, multiVars, genVars, mcpVars, storeVars, cmVars, botUserId, handleVars,
                   streamVars, timerVars, toolCallsData, startMessages,
                   commitVars>>

\* the interstitial post returns: switch the handle and reset the text; a
\* failure is caught and the handle kept
ToolPostReturns ==
    /\ pc = "w_toolPost"
    /\ \E ok \in BOOLEAN :
       /\ slackFailed' = (slackFailed \/ ~ok)
       /\ IF ok
          THEN /\ slackMsgs' = SlackPost(slackMsgs, ToolRender)
               /\ lastMessageTs' = Len(slackMsgs) + 1
               /\ accumulatedContent' = <<>>
          ELSE /\ lastMessageTs' = IF lastMessageTs # NoTs THEN lastMessageTs
                                   ELSE thinkingMessageTs
               /\ UNCHANGED <<slackMsgs, accumulatedContent>>
    /\ pc' = "stream"
    /\ UNCHANGED <<burstVars, multiVars, genVars, mcpVars, storeVars, cmVars, botUserId, thinkingMessageTs,
                   finalMetadata, finalEventContent, eventsLeft, timerVars,
                   toolCallsData, startMessages, errorRenders, commitVars,
                   lastIssued, outcome>>

\* case 'tool_result'
EvToolResult ==
    /\ pc = "stream"
    /\ eventsLeft > 0
    /\ eventsLeft' = eventsLeft - 1
    /\ IF lastMessageTs # NoTs
       THEN /\ pc' = "w_toolResult"
            /\ lastIssued' = Issue("update", lastMessageTs,
                                   aiResponseMessage(<<"Tool klaar.">>, NoMeta))
       ELSE UNCHANGED <<pc, lastIssued>>
    /\ UNCHANGED <<burstVars, multiVars, genVars, mcpVars, storeVars, slackFailed, cmVars, botUserId,
                   handleVars, accumulatedContent, finalMetadata,
                   finalEventContent, timerVars, toolCallsData, slackMsgs,
                   startMessages, errorRenders, commitVars, outcome>>

ToolResultReturns ==
    /\ pc = "w_toolResult"
    /\ \E ok \in BOOLEAN :
       /\ slackFailed' = (slackFailed \/ ~ok)
       /\ IF ok
          THEN /\ slackMsgs' = SlackUpdate(slackMsgs, lastMessageTs,
                                           aiResponseMessage(<<"Tool klaar.">>, NoMeta))
               /\ pc' = "stream"
               /\ UNCHANGED <<errorRenders, lastIssued, outcome>>
          ELSE /\ CatchError
               /\ UNCHANGED slackMsgs
    /\ UNCHANGED <<burstVars, multiVars, genVars, mcpVars, storeVars, cmVars, botUserId, handleVars,
                   streamVars, timerVars, toolCallsData, startMessages,
                   commitVars>>

\* case 'final_message': content and metadata override; the loop goes on
EvFinal ==
    /\ pc = "stream"
    /\ eventsLeft > 0
    /\ eventsLeft' = eventsLeft - 1
    /\ \E hasContent \in BOOLEAN, content \in FinalContents, metadata \in MetaValues :
          /\ accumulatedContent' = IF hasContent THEN content ELSE accumulatedContent
          /\ finalEventContent' = IF hasContent
                                  THEN [has |-> TRUE, text |-> content]
                                  ELSE finalEventContent
          /\ finalMetadata' = IF metadata # NoMeta THEN metadata ELSE finalMetadata
    /\ UNCHANGED <<burstVars, multiVars, genVars, mcpVars, storeVars, slackFailed, cmVars, pc, botUserId,
                   handleVars, timerVars, toolCallsData, slackMsgs,
                   startMessages, errorRenders, commitVars, lastIssued,
                   outcome>>

\* case 'error', from the backend or from a failed read of the stream
EvError ==
    /\ pc = "stream"
    /\ eventsLeft > 0
    /\ eventsLeft' = eventsLeft - 1
    /\ HandleErrorEvent
    /\ UNCHANGED <<burstVars, multiVars, genVars, mcpVars, storeVars, slackFailed, cmVars, botUserId,
                   handleVars, accumulatedContent, finalMetadata,
                   finalEventContent, timerVars, toolCallsData, slackMsgs,
                   startMessages, commitVars>>

\* variant: case 'error' leaves the switch only, and the final update follows
ErrorRenderReturnsBreaking ==
    /\ pc = "w_errorRender"
    /\ \E ok \in BOOLEAN :
       /\ slackFailed' = (slackFailed \/ ~ok)
       /\ IF ok
          THEN /\ slackMsgs' = SlackUpdate(slackMsgs, lastMessageTs, errorMessage("Agent Error"))
               /\ pc' = "final_sleep"
               /\ UNCHANGED <<errorRenders, lastIssued, outcome>>
          ELSE /\ CatchError
               /\ UNCHANGED slackMsgs
    /\ UNCHANGED <<burstVars, multiVars, genVars, mcpVars, storeVars, cmVars, botUserId, handleVars,
                   streamVars, timerVars, toolCallsData, startMessages,
                   commitVars>>

\* the update of case 'error' returns and the turn returns, or it throws
ErrorRenderReturns ==
    /\ pc = "w_errorRender"
    /\ \E ok \in BOOLEAN :
       /\ slackFailed' = (slackFailed \/ ~ok)
       /\ IF ok
          THEN /\ slackMsgs' = SlackUpdate(slackMsgs, lastMessageTs, errorMessage("Agent Error"))
               /\ pc' = "done"
               /\ outcome' = "failed"
               /\ UNCHANGED <<errorRenders, lastIssued>>
          ELSE /\ CatchError
               /\ UNCHANGED slackMsgs
    /\ UNCHANGED <<burstVars, multiVars, genVars, mcpVars, storeVars, cmVars, botUserId, handleVars,
                   streamVars, timerVars, toolCallsData, startMessages,
                   commitVars>>

\* default: an unknown event type is logged
EvUnknown ==
    /\ pc = "stream"
    /\ eventsLeft > 0
    /\ eventsLeft' = eventsLeft - 1
    /\ UNCHANGED <<burstVars, multiVars, genVars, mcpVars, storeVars, slackFailed, cmVars, pc, botUserId,
                   handleVars, accumulatedContent, finalMetadata,
                   finalEventContent, timerVars, toolCallsData, slackMsgs,
                   startMessages, errorRenders, commitVars, lastIssued,
                   outcome>>

\* the stream is exhausted: sleep UPDATE_INTERVAL_MS + 100
StreamEndStep ==
    /\ pc = "stream"
    /\ IF lastMessageTs # NoTs
       THEN /\ pc' = "final_sleep"
            /\ UNCHANGED outcome
       ELSE /\ pc' = "done"
            /\ outcome' = "failed"
    /\ UNCHANGED <<storeVars, slackFailed, cmVars, botUserId, handleVars,
                   streamVars, timerVars, toolCallsData, slackMsgs,
                   startMessages, errorRenders, commitVars, lastIssued>>

StreamEnd == StreamEndStep /\ UNCHANGED <<burstVars, multiVars, genVars, mcpVars>>

\* the sleep is over, which is after every timer of scheduleUpdate armed
\* before it has run (750 ms < 850 ms); the final update is sent
FinalSleepDoneStep ==
    /\ pc = "final_sleep"
    /\ armedTimers = 0
    /\ pc' = "w_final"
    /\ finalRender' = "issued"
    /\ lastIssued' = Issue("update", lastMessageTs,
                           aiResponseMessage(accumulatedContent, finalMetadata))
    /\ UNCHANGED <<storeVars, slackFailed, cmVars, botUserId, handleVars,
                   streamVars, timerVars, toolCallsData, slackMsgs,
                   startMessages, errorRenders, commits, outcome>>

\* variant: the assistant message is committed when the final update is sent
FinalSleepDoneCommitting ==
    /\ pc = "final_sleep"
    /\ armedTimers = 0
    /\ pc' = "w_final"
    /\ finalRender' = "issued"
    /\ lastIssued' = Issue("update", lastMessageTs,
                           aiResponseMessage(accumulatedContent, finalMetadata))
    /\ contexts' = addAssistantMessageToThread(contexts, accumulatedContent, now)
    /\ commits' = commits + 1
    /\ UNCHANGED <<burstVars, multiVars, genVars, mcpVars, storeVars, slackFailed, cfgVars, now, lastOp,
                   botUserId, handleVars, streamVars, timerVars,
                   toolCallsData, slackMsgs, startMessages, errorRenders,
                   outcome>>

FinalSleepDone == FinalSleepDoneStep /\ UNCHANGED <<burstVars, multiVars, genVars, mcpVars>>

\* variant: the assistant message is appended before and after the update
FinalReturnsCommittingTwice ==
    /\ pc = "w_final"
    /\ \E ok \in BOOLEAN :
       /\ slackFailed' = (slackFailed \/ ~ok)
       /\ IF ok
          THEN /\ slackMsgs' = SlackUpdate(slackMsgs, lastMessageTs,
                                           aiResponseMessage(accumulatedContent, finalMetadata))
               /\ contexts' = addAssistantMessageToThread(
                                  addAssistantMessageToThread(contexts, accumulatedContent, now),
                                  accumulatedContent, now)
               /\ commits' = commits + 2
               /\ finalRender' = "ok"
               /\ pc' = "done"
               /\ outcome' = "done"
               /\ UNCHANGED <<errorRenders, lastIssued>>
          ELSE /\ finalRender' = "failed"
               /\ CatchError
               /\ UNCHANGED <<slackMsgs, contexts, commits>>
    /\ UNCHANGED <<burstVars, multiVars, genVars, mcpVars, storeVars, cfgVars, now, lastOp, botUserId,
                   handleVars, streamVars, timerVars, toolCallsData,
                   startMessages>>

\* the final update returns and the assistant message is committed, or it
\* throws into the catch
FinalReturns ==
    /\ pc = "w_final"
    /\ \E ok \in BOOLEAN :
       /\ slackFailed' = (slackFailed \/ ~ok)
       /\ IF ok
          THEN /\ slackMsgs' = SlackUpdate(slackMsgs, lastMessageTs,
                                           aiResponseMessage(accumulatedContent, finalMetadata))
               /\ contexts' = addAssistantMessageToThread(contexts, accumulatedContent, now)
               /\ commits' = commits + 1
               /\ finalRender' = "ok"
               /\ pc' = "done"
               /\ outcome' = "done"
               /\ UNCHANGED <<errorRenders, lastIssued>>
          ELSE /\ finalRender' = "failed"
               /\ CatchError
               /\ UNCHANGED <<slackMsgs, contexts, commits>>
    /\ UNCHANGED <<burstVars, multiVars, genVars, mcpVars, storeVars, cfgVars, now, lastOp, botUserId,
                   handleVars, streamVars, timerVars, toolCallsData,
                   startMessages>>

\* variant: the callback runs only while the turn has not returned
TimerFiresStepWhileRunning ==
    /\ pc # "done"
    /\ armedTimers > 0
    /\ armedTimers' = armedTimers - 1
    /\ IF lastMessageTs = NoTs
       THEN /\ updateScheduled' = FALSE
            /\ UNCHANGED <<thrCalls, lastIssued>>
       ELSE /\ thrCalls' = Append(thrCalls,
                               [ts |-> lastMessageTs,
                                render |-> aiResponseMessage(
                                               accumulatedContent \o <<" ">>, NoMeta)])
            /\ lastIssued' = Issue("update", lastMessageTs,
                                   aiResponseMessage(accumulatedContent \o <<" ">>, NoMeta))
            /\ UNCHANGED updateScheduled
    /\ UNCHANGED <<storeVars, slackFailed, cmVars, pc, botUserId, handleVars,
                   streamVars, toolCallsData, slackMsgs, startMessages,
                   errorRenders, commitVars, outcome>>

\* the setTimeout callback of scheduleUpdate runs: it sends the text
\* accumulated by now to the message active by now
TimerFiresStep ==
    /\ armedTimers > 0
    /\ armedTimers' = armedTimers - 1
    /\ IF lastMessageTs = NoTs
       THEN /\ updateScheduled' = FALSE
            /\ UNCHANGED <<thrCalls, lastIssued>>
       ELSE /\ thrCalls' = Append(thrCalls,
                               [ts |-> lastMessageTs,
                                render |-> aiResponseMessage(
                                               accumulatedContent \o <<" ">>, NoMeta)])
            /\ lastIssued' = Issue("update", lastMessageTs,
                                   aiResponseMessage(accumulatedContent \o <<" ">>, NoMeta))
            /\ UNCHANGED updateScheduled
    /\ UNCHANGED <<storeVars, slackFailed, cmVars, pc, botUserId, handleVars,
                   streamVars, toolCallsData, slackMsgs, startMessages,
                   errorRenders, commitVars, outcome>>

TimerFires == TimerFiresStep /\ UNCHANGED <<burstVars, multiVars, genVars, mcpVars>>

\* the update of a callback returns or throws; finally the flag is cleared
ThrottledReturns ==
    /\ \E i \in 1..Len(thrCalls), ok \in BOOLEAN :
          /\ slackMsgs' = IF ok
                          THEN SlackUpdate(slackMsgs, thrCalls[i].ts, thrCalls[i].render)
                          ELSE slackMsgs
          /\ thrCalls' = RemoveAt(thrCalls, i)
          /\ slackFailed' = (slackFailed \/ ~ok)
    /\ updateScheduled' = FALSE
    /\ UNCHANGED <<burstVars, multiVars, genVars, mcpVars, storeVars, cmVars, pc, botUserId, handleVars,
                   streamVars, armedTimers, toolCallsData, startMessages,
                   errorRenders, commitVars, lastIssued, outcome>>

\* contexts of the thread a turn may find: none, one with messages from
\* earlier turns, one emptied by clearContext(.., false)
StartContexts ==
    {<<>>,
     <<[key |-> ThreadKey,
        messages |-> <<DEFAULT_SYSTEM_MESSAGE, createUserMessage(<<"u1">>),
                       createAssistantMessage(<<"a1">>)>>,
        lastUpdated |-> 0]>>,
     <<[key |-> ThreadKey, messages |-> <<>>, lastUpdated |-> 0]>>}

InitTurn ==
    /\ contexts \in StartContexts
    /\ maxContexts = DefaultMaxContexts
    /\ maxMessagesPerContext = DefaultMaxMessages
    /\ contextTtlMs = DefaultTtlMs
    /\ now = 0
    /\ lastOp = Op("constructor", NoKey, NoKey, 0)
    /\ keyDomain = {ThreadKey}
    /\ msgDomain = {createUserMessage(InboundContent)}
    /\ lenCap = MaxLen
    /\ botUserId \in BOOLEAN
    /\ startMessages = [present |-> HasKey(contexts, ThreadKey),
                        messages |-> getThreadHistory(contexts)]
    /\ TurnIdle
    /\ StorageEmpty
    /\ ClockIdle
    /\ TurnsIdle
    /\ GeneratorIdle
    /\ McpIdle

NextTurn ==
    \/ TurnStart
    \/ AuthReturns
    \/ InitErrorPostReturns
    \/ CatchPostReturns
    \/ CatchUpdateReturns
    \/ ThinkingReturns
    \/ HistoryReturns
    \/ ConnectReturns
    \/ EvChunk
    \/ EvToolCalls
    \/ ToolFlushReturns
    \/ ToolPostReturns
    \/ EvToolResult
    \/ ToolResultReturns
    \/ EvFinal
    \/ EvError
    \/ ErrorRenderReturns
    \/ EvUnknown
    \/ StreamEnd
    \/ FinalSleepDone
    \/ FinalReturns
    \/ TimerFires
    \/ ThrottledReturns

SpecTurn == InitTurn /\ [][NextTurn]_vars

\* a turn whose awaited calls settle, whose event stream is consumed to its
\* end and whose timers run: a step of a started turn that can be taken is
\* taken
SpecTurnFair ==
    InitTurn /\ [][NextTurn]_vars /\ WF_vars(NextTurn /\ pc # "idle")

(***************************************************************************)
(* A turn with its clock: a burst of llm_chunk events, each arriving less  *)
(* than UPDATE_INTERVAL_MS after the one before; a timer runs when its     *)
(* delay has passed, or later.                                             *)
(***************************************************************************)
ClockAdvances ==
    /\ \E dt \in ClockSteps :
          /\ now + dt <= MaxClock
          /\ now' = now + dt
    /\ UNCHANGED <<contexts, cfgVars, lastOp, turnVars, storeVars, burstVars, multiVars, genVars, mcpVars>>

TimedChunk ==
    /\ lastDeltaAt # NoTime => now - lastDeltaAt < UPDATE_INTERVAL_MS
    /\ EvChunkStep
    /\ timerDue' = IF armedTimers' > armedTimers
                   THEN now + UPDATE_INTERVAL_MS
                   ELSE timerDue
    /\ firstDeltaAt' = IF firstDeltaAt = NoTime THEN now ELSE firstDeltaAt
    /\ lastDeltaAt' = now
    /\ UNCHANGED <<sleepDue, updateCalls, multiVars, genVars, mcpVars>>

TimedTimerFires ==
    /\ now >= timerDue
    /\ TimerFiresStep
    /\ updateCalls' = IF lastMessageTs # NoTs THEN updateCalls + 1 ELSE updateCalls
    /\ UNCHANGED <<timerDue, sleepDue, firstDeltaAt, lastDeltaAt, multiVars, genVars, mcpVars>>

TimedStreamEnd ==
    /\ StreamEndStep
    /\ sleepDue' = now + UPDATE_INTERVAL_MS + FinalSleepExtraMs
    /\ UNCHANGED <<timerDue, firstDeltaAt, lastDeltaAt, updateCalls, multiVars, genVars, mcpVars>>

TimedFinalSleepDone ==
    /\ now >= sleepDue
    /\ FinalSleepDoneStep
    /\ updateCalls' = updateCalls + 1
    /\ UNCHANGED <<timerDue, sleepDue, firstDeltaAt, lastDeltaAt, multiVars, genVars, mcpVars>>

NextBurst ==
    \/ TurnStart
    \/ AuthReturns
    \/ InitErrorPostReturns
    \/ CatchPostReturns
    \/ CatchUpdateReturns
    \/ ThinkingReturns
    \/ HistoryReturns
    \/ ConnectReturns
    \/ ErrorRenderReturns
    \/ TimedChunk
    \/ TimedStreamEnd
    \/ TimedFinalSleepDone
    \/ FinalReturns
    \/ TimedTimerFires
    \/ ThrottledReturns
    \/ ClockAdvances

SpecBurst == InitTurn /\ [][NextBurst]_vars

(***************************************************************************)
(* InMemoryContextStorage (context/storage.ts).  A context object is a     *)
(* record of its fields; the field messages holds a reference to an array  *)
(* on the heap, so that two objects can share one array.                   *)
(***************************************************************************)
\* { ...context }: a new object with the same field values, the reference
\* to the messages array included
SpreadCopy(context) == [userId |-> context.userId, messages |-> context.messages]

saveContext(st, key, context) == [st EXCEPT ![key] = SpreadCopy(context)]

getContext(st, key) == SpreadCopy(st[key])

\* a caller builds a context object with a new messages array
CallerNewContext ==
    /\ Len(held) < MaxHeld
    /\ Len(arrays) < MaxArrays
    /\ \E u \in UserIds :
          held' = Append(held, [userId |-> u, messages |-> Len(arrays) + 1])
    /\ arrays' = Append(arrays, <<DEFAULT_SYSTEM_MESSAGE>>)
    /\ storeOp' = "new"
    /\ UNCHANGED <<storage, cmVars, turnVars, burstVars, multiVars, genVars, mcpVars>>

CallSaveContext ==
    /\ \E key \in StorageKeys, i \in 1..Len(held) :
          storage' = saveContext(storage, key, held[i])
    /\ storeOp' = "saveContext"
    /\ UNCHANGED <<arrays, held, cmVars, turnVars, burstVars, multiVars, genVars, mcpVars>>

\* getContext: the caller holds the returned object, or gets undefined
CallGetContext ==
    /\ \E key \in StorageKeys :
          IF storage[key] # Absent
          THEN /\ Len(held) < MaxHeld
               /\ held' = Append(held, getContext(storage, key))
          ELSE UNCHANGED held
    /\ storeOp' = "getContext"
    /\ UNCHANGED <<storage, arrays, cmVars, turnVars, burstVars, multiVars, genVars, mcpVars>>

CallStorageDeleteContext ==
    /\ \E key \in StorageKeys : storage' = [storage EXCEPT ![key] = Absent]
    /\ storeOp' = "deleteContext"
    /\ UNCHANGED <<arrays, held, cmVars, turnVars, burstVars, multiVars, genVars, mcpVars>>

\* a caller assigns a field of a context object it holds
CallerAssignsField ==
    /\ \E i \in 1..Len(held), u \in UserIds :
          held' = [held EXCEPT ![i].userId = u]
    /\ storeOp' = "assignField"
    /\ UNCHANGED <<storage, arrays, cmVars, turnVars, burstVars, multiVars, genVars, mcpVars>>

\* a caller pushes onto the messages array of a context object it holds
CallerPushesMessage ==
    /\ \E i \in 1..Len(held) :
          /\ Len(arrays[held[i].messages]) < MaxStored
          /\ arrays' = [arrays EXCEPT ![held[i].messages] =
                            Append(@, createUserMessage(<<"u1">>))]
    /\ storeOp' = "pushMessage"
    /\ UNCHANGED <<storage, held, cmVars, turnVars, burstVars, multiVars, genVars, mcpVars>>

\* a caller lets go of a context object
CallerDrops ==
    /\ held # <<>>
    /\ held' = SubSeq(held, 1, Len(held) - 1)
    /\ storeOp' = "drop"
    /\ UNCHANGED <<storage, arrays, cmVars, turnVars, burstVars, multiVars, genVars, mcpVars>>

InitStorage ==
    /\ contexts = <<>>
    /\ maxContexts = DefaultMaxContexts
    /\ maxMessagesPerContext = DefaultMaxMessages
    /\ contextTtlMs = DefaultTtlMs
    /\ now = 0
    /\ lastOp = Op("constructor", NoKey, NoKey, 0)
    /\ keyDomain = StorageKeys
    /\ msgDomain = {createUserMessage(<<"u1">>)}
    /\ lenCap = MaxLen
    /\ botUserId = FALSE
    /\ startMessages = [present |-> FALSE, messages |-> <<>>]
    /\ TurnIdle
    /\ StorageEmpty
    /\ ClockIdle
    /\ TurnsIdle
    /\ GeneratorIdle
    /\ McpIdle

NextStorage ==
    \/ CallerNewContext
    \/ CallSaveContext
    \/ CallGetContext
    \/ CallStorageDeleteContext
    \/ CallerAssignsField
    \/ CallerPushesMessage
    \/ CallerDrops

SpecStorage == InitStorage /\ [][NextStorage]_vars

(***************************************************************************)
(* Concurrent turns.  Each call of processMessageAndGenerateResponse has   *)
(* its own locals; the calls share the ContextManager, botUserId and the   *)
(* Slack workspace.  A call runs from one await to the next in one step,   *)
(* and the steps of the calls in flight interleave.  A call that throws is *)
(* caught by the try/catch of the handler that awaits it.                  *)
(***************************************************************************)
\* the threads of the inbound messages
TurnKeys == {"k1", "k2"}

\* the first message arrives in thread k1, the second in either thread
KeysFor(t) == IF t = 1 THEN {"k1"} ELSE TurnKeys

\* the inbound message of a turn
InboundOf(t) == IF t = 1 THEN <<"q1">> ELSE <<"q2">>

\* the backend answers each request with its own stream: data of the
\* llm_chunk events and content of the final_message events of a turn
ChunkOf(t) == IF t = 1 THEN "a" ELSE "b"

FinalOf(t) == IF t = 1 THEN <<"A">> ELSE <<"B">>

\* data of a final_message event: content and metadata, or neither
FinalDataOf(t) ==
    {[hasContent |-> TRUE, content |-> FinalOf(t), metadata |-> "model"],
     [hasContent |-> FALSE, content |-> <<>>, metadata |-> NoMeta]}

\* what conversations.replies returns for a thread: an earlier message and
\* a message without text
ThreadReplies == {<<[user |-> "human", text |-> <<"old">>],
                    [user |-> "human", text |-> <<>>]>>}

\* a call returns, or fails while failures are left to the model
Results == {ok \in BOOLEAN : ok \/ failedCalls < MaxFailedCalls}

Failed(ok) == IF ok THEN failedCalls ELSE failedCalls + 1

\* chat.postMessage by turn t: a new message, whose ts is its index
PostBy(t, render) == Append(thread, [by |-> t, render |-> render, editors |-> {}])

\* chat.update by turn t of the message ts
UpdateBy(t, ts, render) ==
    [thread EXCEPT ![ts].render = render, ![ts].editors = @ \cup {t}]

\* getThreadHistory: the messages array of the context, not a copy
ThreadHistoryOf(cs, k) == IF HasKey(cs, k) THEN MapGet(cs, k).messages ELSE <<>>

\* variant: getThreadHistory hands out a copy of the array
PushSeenThroughCopy(array, message) == array

\* context.messages.push(message) as seen through a reference to the array
\* that was taken before the push
PushSeenThrough(array, message) == Append(array, message)

ContextExistsFor(cs, k) == HasKey(cs, k) /\ Len(MapGet(cs, k).messages) > 0

RECURSIVE AddHistoryTo(_, _, _, _)
AddHistoryTo(cs, k, messages, t) ==
    IF messages = <<>> THEN cs
    ELSE LET message == Head(messages)
             cs1 == IF message.text = <<>>
                    THEN cs
                    ELSE addMessage(cs, k, slackMessageToConversationMessage(message), t)
         IN  AddHistoryTo(cs1, k, Tail(messages), t)

\* step 2 of the turn once the context is there: getThreadHistory, then
\* addUserMessageToThread, which pushes onto the array just handed out
Prepared(tr, cs, t, how) ==
    [tr EXCEPT !.conversationHistory =
                   IF HasKey(cs, tr.key)
                   THEN PushSeenThrough(ThreadHistoryOf(cs, tr.key),
                                        createUserMessage(InboundOf(t)))
                   ELSE <<>>,
               !.prep = how,
               !.pc = "w_connect"]

\* catch (error) of the turn
Caught(tr) ==
    [tr EXCEPT !.pc = IF tr.thinkingMessageTs # NoTs
                      THEN "w_catchUpdate" ELSE "w_catchPost"]

\* case 'error'
ErrorEvent(tr) ==
    IF tr.lastMessageTs # NoTs
    THEN [tr EXCEPT !.pc = "w_errorRender"]
    ELSE [tr EXCEPT !.pc = "done", !.outcome = "failed"]

\* scheduleUpdate()
Scheduled(tr) ==
    IF tr.updateScheduled THEN tr
    ELSE [tr EXCEPT !.updateScheduled = TRUE, !.armedTimers = @ + 1]

\* variant: the handle is a variable of the module, shared by the calls
ActiveHandleShared(t) == Len(thread)

\* lastMessageTs of the call
ActiveHandle(t) == turns[t].lastMessageTs

\* the shared state a step of a turn leaves alone besides the contexts
TurnFrame == <<cfgVars, now, lastOp, turnVars, storeVars, burstVars, genVars, mcpVars>>

TurnStartOf(t) ==
    /\ lastEvent' = NoEvent
    /\ turns[t].pc = "idle"
    /\ \E k \in KeysFor(t) :
          turns' = [turns EXCEPT ![t].key = k,
                                 ![t].pc = IF botUserId THEN "w_thinking" ELSE "w_auth"]
    /\ UNCHANGED <<contexts, thread, failedCalls, eventsUsed, backfills, TurnFrame>>

\* client.auth.test() of the turn returns or throws; botUserId is in turnVars
AuthReturnsOf(t) ==
    /\ lastEvent' = NoEvent
    /\ turns[t].pc = "w_auth"
    /\ \E ok \in Results :
          /\ failedCalls' = Failed(ok)
          /\ turns' = [turns EXCEPT ![t].pc = IF ok THEN "w_thinking" ELSE "w_initError"]
          /\ botUserId' = (botUserId \/ ok)
    /\ UNCHANGED <<contexts, thread, eventsUsed, backfills, cfgVars, now, lastOp,
                   thinkingMessageTs, lastMessageTs, accumulatedContent,
                   finalMetadata, updateScheduled, armedTimers, thrCalls,
                   toolCallsData, eventsLeft, slackMsgs, startMessages,
                   errorRenders, commits, finalRender, lastIssued,
                   finalEventContent, slackFailed, outcome, pc,
                   storeVars, burstVars, genVars, mcpVars>>

InitErrorPostReturnsOf(t) ==
    /\ lastEvent' = NoEvent
    /\ turns[t].pc = "w_initError"
    /\ \E ok \in Results :
          /\ failedCalls' = Failed(ok)
          /\ IF ok
             THEN /\ thread' = PostBy(t, errorMessage("Bot Initialization Error"))
                  /\ turns' = [turns EXCEPT ![t].pc = "done", ![t].outcome = "failed"]
             ELSE /\ turns' = [turns EXCEPT ![t] = Caught(@)]
                  /\ UNCHANGED thread
    /\ UNCHANGED <<contexts, eventsUsed, backfills, TurnFrame>>

\* sendErrorMessage of the catch returns, or throws out of the call
CatchPostReturnsOf(t) ==
    /\ lastEvent' = NoEvent
    /\ turns[t].pc = "w_catchPost"
    /\ \E ok \in Results :
          /\ failedCalls' = Failed(ok)
          /\ IF ok
             THEN /\ thread' = PostBy(t, errorMessage("Error Processing Request"))
                  /\ turns' = [turns EXCEPT ![t].pc = "done", ![t].outcome = "failed"]
             ELSE /\ turns' = [turns EXCEPT ![t].pc = "thrown", ![t].outcome = "failed"]
                  /\ UNCHANGED thread
    /\ UNCHANGED <<contexts, eventsUsed, backfills, TurnFrame>>

\* variant: the handler awaits the call outside of a try block
HandlerCatchMissing(t) ==
    /\ lastEvent' = NoEvent
    /\ turns[t].pc = "thrown"
    /\ turns' = [turns EXCEPT ![t].pc = "unhandled"]
    /\ UNCHANGED <<contexts, thread, failedCalls, eventsUsed, backfills, TurnFrame>>

\* catch (error) of the app.message handler: the error is logged
HandlerCatch(t) ==
    /\ lastEvent' = NoEvent
    /\ turns[t].pc = "thrown"
    /\ turns' = [turns EXCEPT ![t].pc = "done"]
    /\ UNCHANGED <<contexts, thread, failedCalls, eventsUsed, backfills, TurnFrame>>

CatchUpdateReturnsOf(t) ==
    /\ lastEvent' = NoEvent
    /\ turns[t].pc = "w_catchUpdate"
    /\ \E ok \in Results :
          /\ failedCalls' = Failed(ok)
          /\ thread' = IF ok
                       THEN UpdateBy(t, turns[t].thinkingMessageTs,
                                     errorMessage("Error Processing Request"))
                       ELSE thread
    /\ turns' = [turns EXCEPT ![t].pc = "done", ![t].outcome = "failed"]
    /\ UNCHANGED <<contexts, eventsUsed, backfills, TurnFrame>>

\* the placeholder post returns; initializeContextFromHistory finds the
\* context and the turn goes on to step 2, or it requests the replies
ThinkingReturnsOf(t) ==
    /\ lastEvent' = NoEvent
    /\ turns[t].pc = "w_thinking"
    /\ \E ok \in Results :
          /\ failedCalls' = Failed(ok)
          /\ IF ok
             THEN LET ts == Len(thread) + 1
                      tr == [turns[t] EXCEPT !.thinkingMessageTs = ts,
                                             !.lastMessageTs = ts]
                  IN  /\ thread' = PostBy(t, ThinkingRender)
                      /\ IF ContextExistsFor(contexts, tr.key)
                         THEN /\ turns' = [turns EXCEPT ![t] = Prepared(tr, contexts, t, "found")]
                              /\ contexts' = addMessage(contexts, tr.key,
                                                        createUserMessage(InboundOf(t)), now)
                         ELSE /\ turns' = [turns EXCEPT ![t] = [tr EXCEPT !.pc = "w_history",
                                                                          !.prep = "fetching"]]
                              /\ UNCHANGED contexts
             ELSE /\ turns' = [turns EXCEPT ![t] = Caught(@)]
                  /\ UNCHANGED <<thread, contexts>>
    /\ UNCHANGED <<eventsUsed, backfills, TurnFrame>>

\* conversations.replies returns: createContext, the replies are added, then
\* step 2 of the turn; or it throws
HistoryReturnsOf(t) ==
    /\ lastEvent' = NoEvent
    /\ turns[t].pc = "w_history"
    /\ \E ok \in Results :
          /\ failedCalls' = Failed(ok)
          /\ IF ok
             THEN \E messages \in ThreadReplies :
                     LET k == turns[t].key
                         cs1 == AddHistoryTo(createContext(contexts, k, now), k, messages, now)
                     IN  /\ turns' = [turns EXCEPT ![t] = Prepared(@, cs1, t, "fetched")]
                         /\ contexts' = addMessage(cs1, k, createUserMessage(InboundOf(t)), now)
                         /\ backfills' = Append(backfills, k)
             ELSE /\ turns' = [turns EXCEPT ![t] = Caught(@)]
                  /\ UNCHANGED <<contexts, backfills>>
    /\ UNCHANGED <<thread, eventsUsed, TurnFrame>>

\* axios.post returns the stream, or throws and the generator yields one
\* error event
ConnectReturnsOf(t) ==
    /\ lastEvent' = NoEvent
    /\ turns[t].pc = "w_connect"
    /\ \E ok \in Results :
          /\ failedCalls' = Failed(ok)
          /\ turns' = [turns EXCEPT ![t] = IF ok THEN [@ EXCEPT !.pc = "stream"]
                                           ELSE ErrorEvent(@)]
    /\ UNCHANGED <<contexts, thread, eventsUsed, backfills, TurnFrame>>

\* an event of the stream of turn t is handled
Consumes(t, type) ==
    /\ turns[t].pc = "stream"
    /\ eventsUsed < MaxTurnEvents
    /\ eventsUsed' = eventsUsed + 1
    /\ lastEvent' = [turn |-> t, type |-> type]

\* case 'llm_chunk'
EvChunkOf(t) ==
    /\ Consumes(t, "llm_chunk")
    /\ \E data \in {ChunkOf(t), ""} :
          turns' = [turns EXCEPT ![t] =
                       IF data # ""
                       THEN Scheduled([@ EXCEPT !.accumulatedContent = @ \o <<data>>])
                       ELSE @]
    /\ UNCHANGED <<contexts, thread, failedCalls, backfills, TurnFrame>>

\* case 'tool_calls': flush the text to the active message
EvToolCallsOf(t) ==
    /\ Consumes(t, "tool_calls")
    /\ \E named \in BOOLEAN :
          turns' = [turns EXCEPT ![t].toolCallsData = named,
                                 ![t].pc = IF turns[t].lastMessageTs # NoTs
                                           THEN "w_toolFlush"
                                           ELSE IF named THEN "w_toolPost" ELSE @]
    /\ UNCHANGED <<contexts, thread, failedCalls, backfills, TurnFrame>>

ToolFlushReturnsOf(t) ==
    /\ lastEvent' = NoEvent
    /\ turns[t].pc = "w_toolFlush"
    /\ \E ok \in Results :
          /\ failedCalls' = Failed(ok)
          /\ IF ok
             THEN /\ thread' = UpdateBy(t, ActiveHandle(t),
                                        aiResponseMessage(turns[t].accumulatedContent, NoMeta))
                  /\ turns' = [turns EXCEPT ![t].pc = IF turns[t].toolCallsData
                                                      THEN "w_toolPost" ELSE "stream"]
             ELSE /\ turns' = [turns EXCEPT ![t] = Caught(@)]
                  /\ UNCHANGED thread
    /\ UNCHANGED <<contexts, eventsUsed, backfills, TurnFrame>>

\* the interstitial post returns: the handle is switched and the text reset;
\* a failure is caught and the handle kept
ToolPostReturnsOf(t) ==
    /\ lastEvent' = NoEvent
    /\ turns[t].pc = "w_toolPost"
    /\ \E ok \in Results :
          /\ failedCalls' = Failed(ok)
          /\ IF ok
             THEN /\ thread' = PostBy(t, ToolRender)
                  /\ turns' = [turns EXCEPT ![t].lastMessageTs = Len(thread) + 1,
                                            ![t].accumulatedContent = <<>>,
                                            ![t].pc = "stream"]
             ELSE /\ turns' = [turns EXCEPT ![t].lastMessageTs =
                                                IF @ # NoTs THEN @
                                                ELSE turns[t].thinkingMessageTs,
                                            ![t].pc = "stream"]
                  /\ UNCHANGED thread
    /\ UNCHANGED <<contexts, eventsUsed, backfills, TurnFrame>>

\* case 'tool_result'
EvToolResultOf(t) ==
    /\ Consumes(t, "tool_result")
    /\ turns' = [turns EXCEPT ![t].pc = IF turns[t].lastMessageTs # NoTs
                                        THEN "w_toolResult" ELSE @]
    /\ UNCHANGED <<contexts, thread, failedCalls, backfills, TurnFrame>>

ToolResultReturnsOf(t) ==
    /\ lastEvent' = NoEvent
    /\ turns[t].pc = "w_toolResult"
    /\ \E ok \in Results :
          /\ failedCalls' = Failed(ok)
          /\ IF ok
             THEN /\ thread' = UpdateBy(t, ActiveHandle(t),
                                        aiResponseMessage(<<"Tool klaar.">>, NoMeta))
                  /\ turns' = [turns EXCEPT ![t].pc = "stream"]
             ELSE /\ turns' = [turns EXCEPT ![t] = Caught(@)]
                  /\ UNCHANGED thread
    /\ UNCHANGED <<contexts, eventsUsed, backfills, TurnFrame>>

\* case 'final_message'
EvFinalOf(t) ==
    /\ Consumes(t, "final_message")
    /\ \E finalData \in FinalDataOf(t) :
          turns' = [turns EXCEPT ![t].accumulatedContent =
                                     IF finalData.hasContent THEN finalData.content ELSE @,
                                 ![t].finalMetadata =
                                     IF finalData.metadata # NoMeta
                                     THEN finalData.metadata ELSE @]
    /\ UNCHANGED <<contexts, thread, failedCalls, backfills, TurnFrame>>

\* case 'error'
EvErrorOf(t) ==
    /\ Consumes(t, "error")
    /\ turns' = [turns EXCEPT ![t] = ErrorEvent(@)]
    /\ UNCHANGED <<contexts, thread, failedCalls, backfills, TurnFrame>>

\* the update of case 'error' returns and the call returns, or it throws
ErrorRenderReturnsOf(t) ==
    /\ lastEvent' = NoEvent
    /\ turns[t].pc = "w_errorRender"
    /\ \E ok \in Results :
          /\ failedCalls' = Failed(ok)
          /\ IF ok
             THEN /\ thread' = UpdateBy(t, ActiveHandle(t), errorMessage("Agent Error"))
                  /\ turns' = [turns EXCEPT ![t].pc = "done", ![t].outcome = "failed"]
             ELSE /\ turns' = [turns EXCEPT ![t] = Caught(@)]
                  /\ UNCHANGED thread
    /\ UNCHANGED <<contexts, eventsUsed, backfills, TurnFrame>>

\* variant: an unknown event type ends the loop as an error event does
EvUnknownOfEnding(t) ==
    /\ Consumes(t, "unknown")
    /\ turns' = [turns EXCEPT ![t] = ErrorEvent(@)]
    /\ UNCHANGED <<contexts, thread, failedCalls, backfills, TurnFrame>>

\* default: an unknown event type is logged
EvUnknownOf(t) ==
    /\ Consumes(t, "unknown")
    /\ UNCHANGED turns
    /\ UNCHANGED <<contexts, thread, failedCalls, backfills, TurnFrame>>

\* the stream is exhausted: the sleep before the final update starts
StreamEndOf(t) ==
    /\ lastEvent' = NoEvent
    /\ turns[t].pc = "stream"
    /\ turns' = [turns EXCEPT ![t] = IF @.lastMessageTs # NoTs
                                     THEN [@ EXCEPT !.pc = "final_sleep"]
                                     ELSE [@ EXCEPT !.pc = "done", !.outcome = "failed"]]
    /\ UNCHANGED <<contexts, thread, failedCalls, eventsUsed, backfills, TurnFrame>>

\* the sleep is over, after the timers armed before it have run
FinalSleepDoneOf(t) ==
    /\ lastEvent' = NoEvent
    /\ turns[t].pc = "final_sleep"
    /\ turns[t].armedTimers = 0
    /\ turns' = [turns EXCEPT ![t].pc = "w_final"]
    /\ UNCHANGED <<contexts, thread, failedCalls, eventsUsed, backfills, TurnFrame>>

\* the final update returns and the assistant message is committed, or it
\* throws into the catch
FinalReturnsOf(t) ==
    /\ lastEvent' = NoEvent
    /\ turns[t].pc = "w_final"
    /\ \E ok \in Results :
          /\ failedCalls' = Failed(ok)
          /\ IF ok
             THEN /\ thread' = UpdateBy(t, ActiveHandle(t),
                                        aiResponseMessage(turns[t].accumulatedContent,
                                                          turns[t].finalMetadata))
                  /\ contexts' = addMessage(contexts, turns[t].key,
                                     createAssistantMessage(turns[t].accumulatedContent), now)
                  /\ turns' = [turns EXCEPT ![t].pc = "done", ![t].outcome = "done"]
             ELSE /\ turns' = [turns EXCEPT ![t] = Caught(@)]
                  /\ UNCHANGED <<thread, contexts>>
    /\ UNCHANGED <<eventsUsed, backfills, TurnFrame>>

\* the setTimeout callback of scheduleUpdate runs
TimerFiresOf(t) ==
    /\ lastEvent' = NoEvent
    /\ turns[t].armedTimers > 0
    /\ turns' = [turns EXCEPT ![t] =
                    IF @.lastMessageTs = NoTs
                    THEN [@ EXCEPT !.armedTimers = @ - 1, !.updateScheduled = FALSE]
                    ELSE [@ EXCEPT !.armedTimers = @ - 1,
                                   !.thrCalls = Append(@,
                                       [ts |-> ActiveHandle(t),
                                        render |-> aiResponseMessage(
                                            turns[t].accumulatedContent \o <<" ">>,
                                            NoMeta)])]]
    /\ UNCHANGED <<contexts, thread, failedCalls, eventsUsed, backfills, TurnFrame>>

\* the update of a callback returns or throws; finally the flag is cleared
ThrottledReturnsOf(t) ==
    /\ lastEvent' = NoEvent
    /\ \E i \in 1..Len(turns[t].thrCalls), ok \in Results :
          /\ failedCalls' = Failed(ok)
          /\ thread' = IF ok
                       THEN UpdateBy(t, turns[t].thrCalls[i].ts, turns[t].thrCalls[i].render)
                       ELSE thread
          /\ turns' = [turns EXCEPT ![t].thrCalls = RemoveAt(@, i),
                                    ![t].updateScheduled = FALSE]
    /\ UNCHANGED <<contexts, eventsUsed, backfills, TurnFrame>>

\* the singleton ContextManager, no context, no call in flight
InitTurns ==
    /\ contexts = <<>>
    /\ maxContexts = DefaultMaxContexts
    /\ maxMessagesPerContext = DefaultMaxMessages
    /\ contextTtlMs = DefaultTtlMs
    /\ now = 0
    /\ lastOp = Op("constructor", NoKey, NoKey, 0)
    /\ keyDomain = TurnKeys
    /\ msgDomain = {createUserMessage(InboundOf(1))}
    /\ lenCap = MaxLen
    /\ botUserId = FALSE
    /\ startMessages = [present |-> FALSE, messages |-> <<>>]
    /\ TurnIdle
    /\ StorageEmpty
    /\ ClockIdle
    /\ TurnsIdle
    /\ GeneratorIdle
    /\ McpIdle

TurnStep(t) ==
    \/ TurnStartOf(t)
    \/ AuthReturnsOf(t)
    \/ InitErrorPostReturnsOf(t)
    \/ CatchPostReturnsOf(t)
    \/ HandlerCatch(t)
    \/ CatchUpdateReturnsOf(t)
    \/ ThinkingReturnsOf(t)
    \/ HistoryReturnsOf(t)
    \/ ConnectReturnsOf(t)
    \/ EvChunkOf(t)
    \/ EvToolCallsOf(t)
    \/ ToolFlushReturnsOf(t)
    \/ ToolPostReturnsOf(t)
    \/ EvToolResultOf(t)
    \/ ToolResultReturnsOf(t)
    \/ EvFinalOf(t)
    \/ EvErrorOf(t)
    \/ ErrorRenderReturnsOf(t)
    \/ EvUnknownOf(t)
    \/ StreamEndOf(t)
    \/ FinalSleepDoneOf(t)
    \/ FinalReturnsOf(t)
    \/ TimerFiresOf(t)
    \/ ThrottledReturnsOf(t)

NextTurns == \E t \in TurnIds : TurnStep(t)

SpecTurns == InitTurns /\ [][NextTurns]_vars

(***************************************************************************)
(* PythonAgentClient.generateResponseStream.  The response stream delivers *)
(* chunks of bytes; each chunk is decoded on its own and appended to the   *)
(* buffer, and the buffer is cut into lines at the newlines.               *)
(***************************************************************************)
\* the bytes of the stream, in groups: the JSON text of an event whose data
\* holds a two-byte character, cut between the two bytes of that character
\* ("a1", "a2"); the JSON text of another event ("B"); a byte no JSON text
\* of one line contains besides ("x"); the newline ("n"); the space ("s")
StreamBytes == {"a1", "a2", "B", "x", "n", "s"}

\* the chunks the stream can deliver next
ChunksUpTo(len) == UNION {[1..l -> StreamBytes] : l \in 1..len}

\* chunk.toString(): UTF-8 decoding of one chunk; half a character at the
\* edge of the chunk, or apart from its other half, becomes U+FFFD
Decode(chunk) ==
    [i \in 1..Len(chunk) |->
        IF chunk[i] = "a1"
        THEN IF i < Len(chunk) /\ chunk[i + 1] = "a2" THEN "a1" ELSE "a1?"
        ELSE IF chunk[i] = "a2"
        THEN IF i > 1 /\ chunk[i - 1] = "a1" THEN "a2" ELSE "?a2"
        ELSE chunk[i]]

RECURSIVE TrimStart(_)
TrimStart(line) ==
    IF line # <<>> /\ Head(line) = "s" THEN TrimStart(Tail(line)) ELSE line

RECURSIVE TrimEnd(_)
TrimEnd(line) ==
    IF line # <<>> /\ line[Len(line)] = "s"
    THEN TrimEnd(SubSeq(line, 1, Len(line) - 1))
    ELSE line

\* String.prototype.trim
Trim(line) == TrimEnd(TrimStart(line))

\* the events the agent sends, and the first of them as it reads when the
\* two bytes of its character were decoded apart
EventA == [type |-> "llm_chunk", data |-> "e-acute"]

EventADamaged == [type |-> "llm_chunk", data |-> "??"]

EventB == [type |-> "final_message", data |-> "B"]

\* JSON.parse succeeds on the line
ParsesAsJson(line) ==
    line \in {<<"a1", "a2">>, <<"a1?", "?a2">>, <<"B">>}

\* JSON.parse(line)
JsonParse(line) ==
    IF line = <<"a1", "a2">> THEN EventA
    ELSE IF line = <<"a1?", "?a2">> THEN EventADamaged
    ELSE EventB

\* buffer.indexOf('\n'), counted from 1; 0 when there is none
NewlineIndex(buf) ==
    IF \E i \in 1..Len(buf) : buf[i] = "n"
    THEN CHOOSE i \in 1..Len(buf) :
             buf[i] = "n" /\ \A j \in 1..(i - 1) : buf[j] # "n"
    ELSE 0

\* variant: a line that does not parse ends the processing of the buffer,
\* and what the buffer holds after it is dropped
RECURSIVE DrainLinesStopping(_, _)
DrainLinesStopping(buf, out) ==
    IF NewlineIndex(buf) = 0 THEN [buffer |-> buf, yielded |-> out]
    ELSE LET line == Trim(SubSeq(buf, 1, NewlineIndex(buf) - 1))
             rest == SubSeq(buf, NewlineIndex(buf) + 1, Len(buf))
         IN  IF line # <<>> /\ ~ParsesAsJson(line)
             THEN [buffer |-> <<>>, yielded |-> out]
             ELSE DrainLinesStopping(rest, IF line # <<>>
                                           THEN Append(out, JsonParse(line))
                                           ELSE out)

\* the while loop over the newlines of the buffer: every line that is not
\* empty is parsed and yielded, or skipped with a warning
RECURSIVE DrainLines(_, _)
DrainLines(buf, out) ==
    IF NewlineIndex(buf) = 0 THEN [buffer |-> buf, yielded |-> out]
    ELSE LET line == Trim(SubSeq(buf, 1, NewlineIndex(buf) - 1))
             rest == SubSeq(buf, NewlineIndex(buf) + 1, Len(buf))
         IN  DrainLines(rest, IF line # <<>> /\ ParsesAsJson(line)
                              THEN Append(out, JsonParse(line))
                              ELSE out)

\* the events the generator makes up
ConnectError == [type |-> "error", data |-> "Failed to connect to agent service"]

ReadError == [type |-> "error", data |-> "Stream reading error"]

GenFrame == <<cmVars, turnVars, storeVars, burstVars, multiVars, mcpVars>>

\* axios.post returns the response stream
GenConnects ==
    /\ genPc = "connect"
    /\ genPc' = "reading"
    /\ UNCHANGED <<buffer, streamed, received, yielded, GenFrame>>

\* variant: the connection error is thrown to the consumer
GenConnectFailsThrowing ==
    /\ genPc = "connect"
    /\ genPc' = "threw"
    /\ UNCHANGED <<buffer, streamed, received, yielded, GenFrame>>

\* axios.post throws: one error event is yielded and the generator returns
GenConnectFails ==
    /\ genPc = "connect"
    /\ yielded' = Append(yielded, ConnectError)
    /\ genPc' = "done"
    /\ UNCHANGED <<buffer, streamed, received, GenFrame>>

\* one iteration of for await (const chunk of responseStream)
GenReadsChunk ==
    /\ genPc = "reading"
    /\ \E chunk \in ChunksUpTo(Min(MaxChunkLen, MaxStreamLen - Len(streamed))) :
          LET drained == DrainLines(buffer \o Decode(chunk), yielded)
          IN  /\ streamed' = streamed \o chunk
              /\ received' = received \o Decode(chunk)
              /\ buffer' = drained.buffer
              /\ yielded' = drained.yielded
    /\ UNCHANGED <<genPc, GenFrame>>

\* reading the stream throws: one error event is yielded, the stream is
\* destroyed and the generator returns
GenReadFails ==
    /\ genPc = "reading"
    /\ yielded' = Append(yielded, ReadError)
    /\ genPc' = "done"
    /\ UNCHANGED <<buffer, streamed, received, GenFrame>>

\* the stream ends: what is left in the buffer is parsed and yielded, or
\* skipped with a warning
GenStreamEnds ==
    /\ genPc = "reading"
    /\ yielded' = IF Trim(buffer) # <<>> /\ ParsesAsJson(Trim(buffer))
                  THEN Append(yielded, JsonParse(Trim(buffer)))
                  ELSE yielded
    /\ genPc' = "ended"
    /\ UNCHANGED <<buffer, streamed, received, GenFrame>>

InitStream ==
    /\ InitManager
    /\ keyDomain = {"k1"}
    /\ msgDomain = {createUserMessage(<<"u1">>)}
    /\ lenCap = MaxLen

NextStream ==
    \/ GenConnects
    \/ GenConnectFails
    \/ GenReadsChunk
    \/ GenReadFails
    \/ GenStreamEnds

SpecStream == InitStream /\ [][NextStream]_vars

(***************************************************************************)
(* MCPClient.call and MCPClient.callWithRetry.                             *)
(***************************************************************************)
\* response.data of the POST to /call: the responses of the server, and a
\* body that is not an object
NullData == [status |-> "null", code |-> "none"]

ServerData ==
    {[status |-> "success", code |-> "none"],
     [status |-> "pending", code |-> "none"],
     [status |-> "error", code |-> "server_error"],
     [status |-> "error", code |-> "not_found"],
     NullData}

\* how this.client.post settles
AxiosResults == [rejected : BOOLEAN, data : ServerData]

\* the error response call() makes up in its catch
CallFailed == [status |-> "error", code |-> "mcp_call_failed"]

\* the response callWithRetry makes up when it has no lastError
MaxRetriesExceeded == [status |-> "error", code |-> "max_retries_exceeded"]

\* MCPClient.call: the data of the response; a rejected request, or a body
\* whose status cannot be read, is caught and becomes an error response
call(result) ==
    IF result.rejected \/ result.data = NullData THEN CallFailed ELSE result.data

\* retryCount: config?.retryCount || 3
ConfiguredRetryCount(configured) ==
    IF configured = 0 THEN DefaultRetryCount ELSE configured

\* variant: the loop runs while attempt <= retryCount
LoopGoesOnInclusive(n) == n <= retryCount

\* attempt < this.config.retryCount
LoopGoesOn(n) == n < retryCount

\* the return after the loop
AfterLoop == IF lastError # NoResponse THEN lastError ELSE MaxRetriesExceeded

McpFrame == <<cmVars, turnVars, storeVars, burstVars, multiVars, genVars>>

\* callWithRetry is called: lastError = null, attempt = 0, the loop test
McpStart ==
    /\ mcpPc = "idle"
    /\ IF LoopGoesOn(0)
       THEN /\ mcpPc' = "calling"
            /\ UNCHANGED mcpReturned
       ELSE /\ mcpPc' = "returned"
            /\ mcpReturned' = AfterLoop
    /\ UNCHANGED <<retryCount, attempt, lastError, mcpResponses, McpFrame>>

\* await this.call(request) returns: a response that is no error is
\* returned, an error response is stored and the delay starts
McpCallReturns ==
    /\ mcpPc = "calling"
    /\ \E result \in AxiosResults :
          LET response == call(result)
          IN  /\ mcpResponses' = Append(mcpResponses, response)
              /\ IF response.status # "error"
                 THEN /\ mcpReturned' = response
                      /\ mcpPc' = "returned"
                      /\ UNCHANGED lastError
                 ELSE /\ lastError' = response
                      /\ mcpPc' = "waiting"
                      /\ UNCHANGED mcpReturned
    /\ UNCHANGED <<retryCount, attempt, McpFrame>>

\* the retryDelay is over: attempt++, the loop test, and after the loop the
\* return of lastError
McpDelayOver ==
    /\ mcpPc = "waiting"
    /\ attempt' = attempt + 1
    /\ IF LoopGoesOn(attempt + 1)
       THEN /\ mcpPc' = "calling"
            /\ UNCHANGED mcpReturned
       ELSE /\ mcpPc' = "returned"
            /\ mcpReturned' = AfterLoop
    /\ UNCHANGED <<retryCount, lastError, mcpResponses, McpFrame>>

\* an MCPClient constructed with or without a retryCount
InitMcp ==
    /\ contexts = <<>>
    /\ maxContexts = DefaultMaxContexts
    /\ maxMessagesPerContext = DefaultMaxMessages
    /\ contextTtlMs = DefaultTtlMs
    /\ now = 0
    /\ lastOp = Op("constructor", NoKey, NoKey, 0)
    /\ keyDomain = {"k1"}
    /\ msgDomain = {createUserMessage(<<"u1">>)}
    /\ lenCap = MaxLen
    /\ botUserId = FALSE
    /\ startMessages = [present |-> FALSE, messages |-> <<>>]
    /\ TurnIdle
    /\ StorageEmpty
    /\ ClockIdle
    /\ TurnsIdle
    /\ GeneratorIdle
    /\ \E configured \in 0..MaxRetryCount :
          retryCount = ConfiguredRetryCount(configured)
    /\ mcpPc = "idle"
    /\ attempt = 0
    /\ lastError = NoResponse
    /\ mcpResponses = <<>>
    /\ mcpReturned = NoResponse

NextMcp ==
    \/ McpStart
    \/ McpCallReturns
    \/ McpDelayOver

SpecMcp == InitMcp /\ [][NextMcp]_vars

(***************************************************************************)
(* Properties of the ContextManager.                                       *)
(***************************************************************************)
MessagesOf(cs, k) == MapGet(cs, k).messages

\* the list addMessage pushes onto: the stored one, or the seed of the
\* context created on demand
ListBeforeAdd(cs, k) ==
    IF HasKey(cs, k) THEN MessagesOf(cs, k) ELSE <<DEFAULT_SYSTEM_MESSAGE>>

LastN(s, n) == [i \in 1..n |-> s[Len(s) - n + i]]

SystemMessagesIn(msgs) == {msgs[i] : i \in {j \in 1..Len(msgs) : msgs[j].role = "system"}}

\* C1: after every call that can create a context the number of stored
\* contexts is at most maxContexts
C1_CapacityBound == Len(contexts) <= maxContexts

C1_Witness ==
    /\ lastOp.op \in {"createContext", "getOrCreateContext", "addMessage",
                      "updateSystemMessage"}
    /\ lastOp.evicted # NoKey
    /\ Len(contexts) = maxContexts

\* C2: a createContext that evicts removes exactly one context, one whose
\* lastUpdated is minimal among the stored contexts; with maxContexts = 2,
\* creating A, B and then C leaves exactly {B, C}
C2_EvictionVictim ==
    [][(Creates(contexts, lastOp'.op, lastOp'.key) /\ Len(contexts) >= maxContexts)
        => \E i \in 1..Len(contexts) :
              /\ \A j \in 1..Len(contexts) :
                    contexts[i].lastUpdated <= contexts[j].lastUpdated
              /\ KeysOf(contexts') =
                    (KeysOf(contexts) \ {contexts[i].key}) \cup {lastOp'.key}
              /\ \A j \in 1..Len(contexts) :
                    (j # i /\ contexts[j].key # lastOp'.key)
                        => \E h \in 1..Len(contexts') : contexts'[h] = contexts[j]
              /\ (maxContexts = 2 /\ Len(contexts) = 2
                    /\ contexts[1].lastUpdated <= contexts[2].lastUpdated
                    /\ lastOp'.op = "createContext"
                    /\ lastOp'.key \notin KeysOf(contexts))
                        => KeysOf(contexts') = {contexts[2].key, lastOp'.key}]_vars

C2_Witness ==
    /\ lastOp = Op("createContext", "k3", "k1", 0)
    /\ maxContexts = 2
    /\ KeysOf(contexts) = {"k2", "k3"}

\* C3: after every addMessage call the list of the context it was called
\* on has at most maxMessagesPerContext messages
C3_SizeBound ==
    lastOp.op = "addMessage"
        => Len(MessagesOf(contexts, lastOp.key)) <= maxMessagesPerContext

\* C4: an addMessage that pushes the list over maxMessagesPerContext leaves
\* the pre-trim messages[0] followed by the most recent
\* maxMessagesPerContext - 1 messages in their order
C4_TrimResult ==
    [][(lastOp'.op = "addMessage"
          /\ Len(ListBeforeAdd(contexts, lastOp'.key)) + 1 > maxMessagesPerContext)
        => \E m \in msgDomain :
              LET pushed == Append(ListBeforeAdd(contexts, lastOp'.key), m)
              IN  MessagesOf(contexts', lastOp'.key) =
                      <<pushed[1]>> \o LastN(pushed, maxMessagesPerContext - 1)]_vars

\* C5: the sweep removes every context with now - lastUpdated > ttl and no
\* context with now - lastUpdated <= ttl
C5_SweepExact ==
    [][lastOp'.op = "cleanupExpiredContexts"
        => /\ \A i \in 1..Len(contexts') :
                  now - contexts'[i].lastUpdated <= contextTtlMs
           /\ \A i \in 1..Len(contexts) :
                  now - contexts[i].lastUpdated <= contextTtlMs
                      => \E j \in 1..Len(contexts') : contexts'[j] = contexts[i]]_vars

C5_Witness ==
    /\ lastOp.op = "cleanupExpiredContexts"
    /\ lastOp.removed > 0
    /\ \E i \in 1..Len(contexts) : now - contexts[i].lastUpdated = contextTtlMs

\* C6: a system message of a context is always its messages[0], and the
\* trimming of addMessage discards no system message
C6_SystemSlot ==
    /\ [](\A c \in 1..Len(contexts) :
            \A i \in 1..Len(contexts[c].messages) :
                contexts[c].messages[i].role = "system"
                    => contexts[c].messages[i] = contexts[c].messages[1])
    /\ [][lastOp'.op = "addMessage"
            => SystemMessagesIn(ListBeforeAdd(contexts, lastOp'.key))
                  \subseteq SystemMessagesIn(MessagesOf(contexts', lastOp'.key))]_vars

(***************************************************************************)
(* Properties of a turn.                                                   *)
(***************************************************************************)
LastOf(s) == s[Len(s)]

\* positions of the turn between the append of the inbound message and the
\* return of the final update
AfterContextPrep ==
    pc \in {"w_connect", "stream", "w_toolFlush", "w_toolPost", "w_toolResult",
            "w_errorRender", "final_sleep", "w_final"}

\* the turn is writing its error render, or has ended in failure
OnFailedPath ==
    \/ pc \in {"w_initError", "w_errorRender", "w_catchUpdate", "w_catchPost"}
    \/ outcome = "failed"

\* the content the claim calls final: that of the final event when one
\* carried content, otherwise the accumulated deltas
TrueFinalContent ==
    IF finalEventContent.has THEN finalEventContent.text ELSE accumulatedContent

\* C7: the assistant message is appended to the context exactly when the
\* final update has returned successfully, and not before it has returned
C7_NoPrematureCommit ==
    /\ commits = IF finalRender = "ok" THEN 1 ELSE 0
    /\ finalRender = "ok"
          => /\ LastOf(getThreadHistory(contexts)) = createAssistantMessage(accumulatedContent)
             /\ outcome = "done"
    /\ AfterContextPrep
          => LastOf(getThreadHistory(contexts)) = createUserMessage(InboundContent)

C7_Witness ==
    /\ pc = "done"
    /\ finalRender = "ok"
    /\ commits = 1
    /\ slackMsgs[lastMessageTs] = aiResponseMessage(accumulatedContent, finalMetadata)

\* C8: a turn on its failure path leaves the message list of the thread's
\* context as it was before the turn, and a turn that ended in failure has
\* produced exactly one error render (Slack accepting it)
C8_FailedLeavesContext ==
    /\ OnFailedPath
          => /\ HasKey(contexts, ThreadKey) = startMessages.present
             /\ getThreadHistory(contexts) = startMessages.messages
    /\ (outcome = "failed" /\ ~slackFailed) => errorRenders = 1

\* C9: at most one scheduled update is pending or in flight, and once the
\* final update is sent no scheduled update is pending or in flight
C9_FinalFlushLast ==
    /\ armedTimers + Len(thrCalls) <= 1
    /\ finalRender # "none" => armedTimers = 0 /\ thrCalls = <<>>

\* C10: on a successful turn the last update sent renders the final content
\* (that of the final event when one carried content, otherwise the
\* accumulated deltas) with the metadata, on the active message
C10_FinalFlushCorrect ==
    outcome = "done"
        => lastIssued = Issue("update", lastMessageTs,
                              aiResponseMessage(TrueFinalContent, finalMetadata))

\* a step of case 'llm_chunk' that appends a non-empty delta
DeltaStep ==
    \E data \in ChunkData \ {""} : accumulatedContent' = accumulatedContent \o <<data>>

\* C11: a delta arms a delayed update only when the flag is clear, a delta
\* arriving while the flag is set arms nothing and sends nothing, the callback
\* sends the text accumulated when it runs, and the flag is cleared only
\* when that update has returned
C11_ThrottleGate ==
    /\ [](updateScheduled <=> (armedTimers + Len(thrCalls) = 1))
    /\ [][/\ armedTimers' > armedTimers
              => DeltaStep /\ ~updateScheduled /\ updateScheduled'
          /\ (DeltaStep /\ updateScheduled)
              => UNCHANGED <<armedTimers, thrCalls, lastIssued, slackMsgs>>
          /\ Len(thrCalls') > Len(thrCalls)
              => /\ armedTimers' = armedTimers - 1
                 /\ thrCalls' = Append(thrCalls,
                        [ts |-> lastMessageTs,
                         render |-> aiResponseMessage(accumulatedContent \o <<" ">>, NoMeta)])
                 /\ updateScheduled /\ updateScheduled'
          /\ (updateScheduled /\ ~updateScheduled')
              => Len(thrCalls') < Len(thrCalls)]_vars

\* two deltas were absorbed by one timer, whose callback has sent both
C11_Witness ==
    /\ updateScheduled
    /\ armedTimers = 0
    /\ Len(accumulatedContent) = 2
    /\ thrCalls = <<[ts |-> lastMessageTs,
                     render |-> aiResponseMessage(accumulatedContent \o <<" ">>, NoMeta)]>>
    /\ eventsLeft = MaxEvents - 2

\* the edit of case 'tool_calls': the text accumulated so far on the active message
ToolFlushRender == aiResponseMessage(accumulatedContent, NoMeta)

\* C13: an event announcing tool calls first sends the accumulated text as
\* an edit of the active message; the interstitial message is posted only
\* when that edit has returned; the handle switches to the new message and
\* the text is reset only when the post has returned, in one step
C13_ToolStartProtocol ==
    [][/\ (pc = "stream" /\ pc' = "w_toolFlush")
              => /\ lastIssued' = Issue("update", lastMessageTs, ToolFlushRender)
                 /\ UNCHANGED <<slackMsgs, lastMessageTs, accumulatedContent>>
       /\ (pc # "w_toolPost" /\ pc' = "w_toolPost")
              => /\ pc = "w_toolFlush" /\ toolCallsData
                 /\ slackMsgs' = SlackUpdate(slackMsgs, lastMessageTs, ToolFlushRender)
                 /\ lastIssued' = Issue("post", NoTs, ToolRender)
                 /\ UNCHANGED <<lastMessageTs, accumulatedContent>>
       /\ (pc = "w_toolFlush" /\ toolCallsData) => pc' # "stream"
       /\ (pc = "w_toolPost" /\ pc' = "stream" /\ slackMsgs' # slackMsgs)
              => /\ slackMsgs' = SlackPost(slackMsgs, ToolRender)
                 /\ lastMessageTs' = Len(slackMsgs')
                 /\ accumulatedContent' = <<>>
       /\ (lastMessageTs # NoTs /\ lastMessageTs' # lastMessageTs)
              => /\ pc = "w_toolPost"
                 /\ slackMsgs' = SlackPost(slackMsgs, ToolRender)
      ]_vars

\* the placeholder shows the flushed text, the interstitial message is the
\* active one and the text is empty
C13_Witness ==
    /\ pc = "stream"
    /\ thinkingMessageTs = 1
    /\ lastMessageTs = 2
    /\ slackMsgs = <<aiResponseMessage(<<"Hel">>, NoMeta), ToolRender>>
    /\ accumulatedContent = <<>>

\* C14: a consumed error event sends the error render to the active message;
\* from then on no event is processed, no final update is sent and no
\* assistant message is committed
C14_ErrorTerminal ==
    /\ [](pc = "w_errorRender" => finalRender = "none" /\ commits = 0)
    /\ [][/\ (pc # "w_errorRender" /\ pc' = "w_errorRender")
                  => lastIssued' = Issue("update", lastMessageTs, errorMessage("Agent Error"))
          /\ (pc = "w_errorRender" /\ pc' = "done")
                  => slackMsgs' = SlackUpdate(slackMsgs, lastMessageTs,
                                              errorMessage("Agent Error"))
          /\ OnFailedPath
                  => /\ OnFailedPath'
                     /\ UNCHANGED <<streamVars, commitVars, contexts,
                                    handleVars>>
         ]_vars

\* the error render is on the active message, the turn is over with events
\* of the stream not consumed and with nothing committed
C14_Witness ==
    /\ pc = "done"
    /\ outcome = "failed"
    /\ lastMessageTs \in 1..Len(slackMsgs)
    /\ slackMsgs[lastMessageTs] = errorMessage("Agent Error")
    /\ accumulatedContent # <<>>
    /\ eventsLeft > 0
    /\ commits = 0
    /\ finalRender = "none"

\* the messages of the thread that show an error render
ErrorMessagesShown ==
    Cardinality({ts \in 1..Len(slackMsgs) : slackMsgs[ts].kind = "error"})

\* C15: a turn that ended in failure, with every call to Slack accepted and
\* no scheduled update outstanding, leaves exactly one message of the
\* thread showing the failure
C15_OneFailureMessage ==
    (outcome = "failed" /\ ~slackFailed /\ armedTimers = 0 /\ thrCalls = <<>>)
        => ErrorMessagesShown = 1

\* C16: when the update that writes a failure render to a known message
\* fails, the next call sent is a post of a failure render to the thread
C16_FallbackPost ==
    [][(/\ pc \in {"w_errorRender", "w_catchUpdate"}
        /\ pc' # pc
        /\ slackMsgs' = slackMsgs)
           => /\ lastIssued'.call = "post"
              /\ lastIssued'.render.kind = "error"
              /\ pc' = "w_catchPost"]_vars

\* what getContext(key) lets its caller read: the fields of the stored
\* object and the elements of its messages array
StoredView(key) ==
    IF storage[key] = Absent
    THEN [userId |-> Absent.userId, messages |-> <<>>]
    ELSE [userId |-> storage[key].userId, messages |-> arrays[storage[key].messages]]

\* C17: a change a caller makes to a context object it holds, one it passed
\* to saveContext or one it got from getContext, to a field or by pushing
\* onto its messages list, changes nothing of what getContext returns
C17_CopySemantics ==
    [][storeOp' \in {"assignField", "pushMessage"}
          => \A key \in StorageKeys : StoredView(key)' = StoredView(key)]_vars

\* C18: getOrCreateContext on a present key changes nothing in the map; on
\* a missing key it adds a context whose list is one system message, after
\* evicting one context when the map is at capacity
C18_GetOrCreate ==
    [][lastOp'.op = "getOrCreateContext"
          => IF HasKey(contexts, lastOp'.key)
             THEN contexts' = contexts
             ELSE /\ HasKey(contexts', lastOp'.key)
                  /\ Len(MessagesOf(contexts', lastOp'.key)) = 1
                  /\ MessagesOf(contexts', lastOp'.key)[1].role = "system"
                  /\ IF Len(contexts) >= maxContexts
                     THEN /\ Len(contexts') = Len(contexts)
                          /\ \E old \in KeysOf(contexts) :
                                KeysOf(contexts') =
                                    (KeysOf(contexts) \ {old}) \cup {lastOp'.key}
                     ELSE /\ Len(contexts') = Len(contexts) + 1
                          /\ \A i \in 1..Len(contexts) : contexts'[i] = contexts[i]
         ]_vars

\* getOrCreateContext has returned a context with messages as it was, in a
\* map at capacity
C18_Witness ==
    /\ lastOp.op = "getOrCreateContext"
    /\ HasKey(contexts, lastOp.key)
    /\ Len(MessagesOf(contexts, lastOp.key)) = 2
    /\ MapGet(contexts, lastOp.key).lastUpdated < now
    /\ Len(contexts) = maxContexts

\* C19: updateSystemMessage replaces messages[0] when it is a system
\* message, the length staying the same, and otherwise inserts the new
\* system message in front, the length growing by one; the other messages
\* keep their content and order, whatever maxMessagesPerContext is
C19_UpdateSystemMessage ==
    [][lastOp'.op = "updateSystemMessage"
          => LET before == ListBeforeAdd(contexts, lastOp'.key)
                 after == MessagesOf(contexts', lastOp'.key)
             IN  /\ after[1] \in {createSystemMessage(s) : s \in SystemTexts}
                 /\ IF Len(before) > 0 /\ before[1].role = "system"
                    THEN /\ Len(after) = Len(before)
                         /\ \A i \in 2..Len(before) : after[i] = before[i]
                    ELSE /\ Len(after) = Len(before) + 1
                         /\ \A i \in 1..Len(before) : after[i + 1] = before[i]
         ]_vars

\* a system message was inserted in front of a list that was at the bound
C19_Witness ==
    /\ lastOp.op = "updateSystemMessage"
    /\ maxMessagesPerContext >= 2
    /\ Len(MessagesOf(contexts, lastOp.key)) = maxMessagesPerContext + 1
    /\ MessagesOf(contexts, lastOp.key)[2].role = "user"

\* C20: clearContext on a missing key returns false and changes nothing; on
\* a present key it returns true, keeps the context in the map and leaves
\* [messages[0]] when keepSystemMessage is set and messages[0] is a system
\* message, and the empty list otherwise
C20_ClearContext ==
    [][lastOp'.op = "clearContext"
          => IF ~HasKey(contexts, lastOp'.key)
             THEN /\ lastOp'.returned = FALSE
                  /\ contexts' = contexts
             ELSE LET before == MessagesOf(contexts, lastOp'.key)
                  IN  /\ lastOp'.returned = TRUE
                      /\ Len(contexts') = Len(contexts)
                      /\ \A i \in 1..Len(contexts) : contexts'[i].key = contexts[i].key
                      /\ \A i \in 1..Len(contexts) :
                            contexts[i].key # lastOp'.key => contexts'[i] = contexts[i]
                      /\ MessagesOf(contexts', lastOp'.key) =
                            IF /\ lastOp'.keepSystemMessage
                               /\ Len(before) > 0
                               /\ before[1].role = "system"
                            THEN <<before[1]>>
                            ELSE <<>>
         ]_vars

\* clearContext has kept the system message set by updateSystemMessage
C20_Witness ==
    /\ lastOp.op = "clearContext"
    /\ lastOp.returned
    /\ lastOp.keepSystemMessage
    /\ MessagesOf(contexts, lastOp.key) = <<createSystemMessage(<<"ctx">>)>>

CeilDiv(a, b) == (a + b - 1) \div b

\* C12: a turn that received only llm_chunk events, each less than
\* UPDATE_INTERVAL_MS after the one before, over a time D from the first to
\* the last, has sent at most ceil(D / UPDATE_INTERVAL_MS) + 1 updates
C12_ThrottleBound ==
    firstDeltaAt # NoTime
        => updateCalls <= CeilDiv(lastDeltaAt - firstDeltaAt, UPDATE_INTERVAL_MS) + 1

(***************************************************************************)
(* Properties of the ContextManager: timestamps and absent keys.           *)
(***************************************************************************)
\* the calls that return without writing to the map
ReadOps == {"getContext", "getAllContexts"}

\* the step is a call of addMessage, updateSystemMessage or of clearContext
\* on a key that has a context
MutatesContext ==
    \/ lastOp'.op \in {"addMessage", "updateSystemMessage"}
    \/ lastOp'.op = "clearContext" /\ HasKey(contexts, lastOp'.key)

\* C21: addMessage, updateSystemMessage and clearContext set lastUpdated of
\* their context to the time of the call; lastUpdated of a context never
\* decreases while the context is in the map; getContext, getAllContexts and
\* getOrCreateContext on an existing key leave every lastUpdated as it was
C21_LastUpdated ==
    [][/\ MutatesContext
              => /\ HasKey(contexts', lastOp'.key)
                 /\ MapGet(contexts', lastOp'.key).lastUpdated = now
       /\ \A k \in KeysOf(contexts) \cap KeysOf(contexts') :
              MapGet(contexts', k).lastUpdated >= MapGet(contexts, k).lastUpdated
       /\ (\/ lastOp'.op \in ReadOps
           \/ lastOp'.op = "getOrCreateContext" /\ HasKey(contexts, lastOp'.key))
              => contexts' = contexts
      ]_vars

\* a context written earlier has been mutated and then read
C21_Witness ==
    /\ lastOp.op = "getContext"
    /\ lastOp.returned.present
    /\ lastOp.returned.lastUpdated = 2
    /\ Len(lastOp.returned.messages) = 2
    /\ Len(contexts) = 2
    /\ \E i \in 1..Len(contexts) : contexts[i].lastUpdated = 0

\* the step is a call that names a key for which the map has no context
NamesAbsentKey == lastOp'.key # NoKey /\ ~HasKey(contexts, lastOp'.key)

\* the context createContext stores for key k at time t
FreshContext(k, t) ==
    [key |-> k, messages |-> <<DEFAULT_SYSTEM_MESSAGE>>, lastUpdated |-> t]

\* C22 as stated: every call that names a key without context, other than
\* deleteContext, leaves a context under that key
C22_AlwaysCreates ==
    [][(NamesAbsentKey /\ lastOp'.op # "deleteContext")
           => HasKey(contexts', lastOp'.key)]_vars

\* C22: on a key without context every call returns a value:
\* getOrCreateContext, addMessage and updateSystemMessage create the context
\* on demand, getContext returns undefined, clearContext and deleteContext
\* return false, and these three leave the map as it was
C22_AbsentKey ==
    [][NamesAbsentKey
           => /\ lastOp'.op \in {"createContext", "getOrCreateContext"}
                    => MapGet(contexts', lastOp'.key) = FreshContext(lastOp'.key, now)
              /\ lastOp'.op \in {"addMessage", "updateSystemMessage"}
                    => /\ HasKey(contexts', lastOp'.key)
                       /\ MapGet(contexts', lastOp'.key).lastUpdated = now
                       /\ MapGet(contexts', lastOp'.key).messages # <<>>
              /\ lastOp'.op = "getContext"
                    => lastOp'.returned = NoContext /\ contexts' = contexts
              /\ lastOp'.op \in {"clearContext", "deleteContext"}
                    => lastOp'.returned = FALSE /\ contexts' = contexts
      ]_vars

\* clearContext has been called on a key without context while another key
\* has one
C22_Witness ==
    /\ lastOp.op = "clearContext"
    /\ lastOp.returned = FALSE
    /\ ~HasKey(contexts, lastOp.key)
    /\ Len(contexts) = 1

(***************************************************************************)
(* Properties of concurrent turns.                                         *)
(***************************************************************************)
\* the fragments a message of turn t can show: its own stream's text, the
\* padding of a throttled update and the fixed texts of the renders
OwnFragments(t) ==
    {ChunkOf(t), FinalOf(t)[1], " ", "(no content)", "Thinking...", "tool",
     "Tool klaar.", "Agent Error", "Error Processing Request", "Bot Initialization Error"}

FragmentsOf(text) == {text[i] : i \in 1..Len(text)}

\* C23: every update of a message is sent by the turn that posted it and
\* every message shows text of the events of that turn only, whatever the
\* interleaving and whether or not the turns are on the same thread; a step
\* of one turn leaves the locals of the other as they were
C23_TurnIsolation ==
    /\ [](\A i \in 1..Len(thread) :
              /\ thread[i].editors \subseteq {thread[i].by}
              /\ FragmentsOf(thread[i].render.text) \subseteq OwnFragments(thread[i].by))
    /\ [][\A t \in TurnIds, u \in TurnIds :
              (t # u /\ turns'[t] # turns[t]) => turns'[u] = turns[u]]_vars

\* two turns on the same thread are in their streams, and each has edited
\* its own message with its own text
C23_Witness ==
    /\ turns[1].key = turns[2].key
    /\ turns[1].pc = "stream" /\ turns[2].pc = "stream"
    /\ \E i \in 1..Len(thread), j \in 1..Len(thread) :
          /\ thread[i].by = 1 /\ thread[i].editors = {1}
          /\ ChunkOf(1) \in FragmentsOf(thread[i].render.text)
          /\ thread[j].by = 2 /\ thread[j].editors = {2}
          /\ ChunkOf(2) \in FragmentsOf(thread[j].render.text)

\* the turns that have invoked conversations.replies for thread k
Fetchers(k) ==
    {t \in TurnIds : turns[t].key = k /\ turns[t].prep \in {"fetching", "fetched"}}

\* C24: the replies of a thread are requested by one turn at most, the first
\* that refers to the thread, and a turn that finds a context with messages
\* requests nothing and leaves the context in place
C24_BackfillOnce ==
    /\ [](\A k \in TurnKeys : Cardinality(Fetchers(k)) <= 1)
    /\ [][\A t \in TurnIds :
              (turns[t].pc = "w_thinking" /\ turns'[t].pc # "w_thinking"
                   /\ ContextExistsFor(contexts, turns[t].key))
                  => /\ turns'[t].prep # "fetching"
                     /\ HasKey(contexts', turns[t].key)
                     /\ backfills' = backfills]_vars

\* C25: a turn that takes an event of an unknown type from its stream keeps
\* its accumulated text, its handles and its pending flag, sends nothing to
\* Slack, writes nothing to the contexts and stays in the loop
C25_UnknownIgnored ==
    [][lastEvent'.type = "unknown"
           => /\ turns'[lastEvent'.turn] = turns[lastEvent'.turn]
              /\ turns'[lastEvent'.turn].pc = "stream"
              /\ thread' = thread
              /\ contexts' = contexts
              /\ failedCalls' = failedCalls]_vars

\* an unknown event has been taken by a turn that has text accumulated and
\* an update pending
C25_Witness ==
    /\ lastEvent.type = "unknown"
    /\ turns[lastEvent.turn].accumulatedContent # <<>>
    /\ turns[lastEvent.turn].updateScheduled
    /\ turns[lastEvent.turn].lastMessageTs # NoTs


\* C26: when the connection to the agent fails, the generator yields exactly
\* one event, of type error, and ends without throwing: the step that leaves
\* the connection attempt without a stream yields that one event and ends
\* the generator, the generator never throws, and a generator that ended
\* on a failed connection has yielded that event and nothing else.
C26_ConnectionFailure ==
    /\ [](genPc # "threw")
    /\ [](yielded # <<>> /\ Head(yielded) = ConnectError
            => yielded = <<ConnectError>> /\ genPc = "done")
    /\ [][genPc = "connect" /\ genPc' \notin {"connect", "reading"}
            => /\ genPc' = "done"
               /\ Len(yielded') = 1
               /\ yielded'[1].type = "error"]_vars

C26_Witness ==
    /\ genPc = "done"
    /\ yielded = <<ConnectError>>
    /\ received = <<>>


\* the positions of a call on its failure paths: the error posts and
\* updates, and the error thrown out of the call
FailurePcs == {"w_initError", "w_catchPost", "w_catchUpdate", "w_errorRender", "thrown"}

\* a step of turn t in which something fails or a failure is handled: a
\* Slack or backend call throws, the stream delivers an error event, or the
\* turn is on a failure path
FailureStepOf(t) ==
    /\ turns'[t] # turns[t]
    /\ \/ failedCalls' > failedCalls
       \/ lastEvent' = [turn |-> t, type |-> "error"]
       \/ turns[t].pc \in FailurePcs

\* C27: a failure inside one turn never leaves the handler of the inbound
\* event, and the step in which it happens or is handled leaves the context
\* of every other key, the record of every other turn in flight and the
\* messages posted by the other turns as they were.
C27_ErrorIsolation ==
    /\ [](\A t \in TurnIds : turns[t].pc # "unhandled")
    /\ [][\A t \in TurnIds :
            FailureStepOf(t) =>
               /\ \A k \in TurnKeys \ {turns[t].key} :
                     /\ HasKey(contexts', k) = HasKey(contexts, k)
                     /\ HasKey(contexts, k) => MapGet(contexts', k) = MapGet(contexts, k)
               /\ \A u \in TurnIds \ {t} : turns'[u] = turns[u]
               /\ Len(thread') >= Len(thread)
               /\ \A i \in 1..Len(thread) :
                     thread[i].by # t => thread'[i] = thread[i]]_vars

C27_Witness ==
    /\ turns[1].pc = "done"
    /\ turns[1].outcome = "failed"
    /\ turns[1].thinkingMessageTs = NoTs
    /\ failedCalls >= 2
    /\ turns[2].pc = "stream"
    /\ turns[2].key = "k2"
    /\ turns[2].accumulatedContent # <<>>
    /\ HasKey(contexts, "k2")
    /\ \E i \in 1..Len(thread) : thread[i].by = 2


\* C28: in every turn the placeholder is posted before the context is
\* resolved or backfilled; the step that completes the preparation has
\* appended the inbound user message to the context of the thread; and when
\* the backend is invoked the history handed to it ends with that message.
C28_StepOrder ==
    /\ [](\A t \in TurnIds :
            turns[t].prep # "none" =>
               /\ turns[t].thinkingMessageTs \in 1..Len(thread)
               /\ thread[turns[t].thinkingMessageTs].by = t)
    /\ [](\A t \in TurnIds :
            turns[t].pc = "w_connect" =>
               /\ turns[t].prep \in {"found", "fetched"}
               /\ turns[t].conversationHistory # <<>>
               /\ turns[t].conversationHistory[Len(turns[t].conversationHistory)]
                     = createUserMessage(InboundOf(t)))
    /\ [][\A t \in TurnIds :
            (turns'[t].pc = "w_connect" /\ turns[t].pc # "w_connect") =>
               /\ HasKey(contexts', turns'[t].key)
               /\ LET messages == MapGet(contexts', turns'[t].key).messages
                  IN  /\ messages # <<>>
                      /\ messages[Len(messages)] = createUserMessage(InboundOf(t))]_vars

C28_Witness ==
    /\ turns[1].pc = "w_connect" /\ turns[1].prep = "fetched"
    /\ Len(turns[1].conversationHistory) = 3
    /\ turns[2].pc = "w_connect" /\ turns[2].prep = "found"
    /\ turns[2].key = turns[1].key
    /\ Len(turns[2].conversationHistory) = 4
    /\ turns[2].conversationHistory[3] = createUserMessage(InboundOf(1))


\* the message shows text of the answer streamed so far
ShowsPartialText(message) ==
    /\ message.kind = "ai"
    /\ \E i \in 1..Len(message.text) : message.text[i] \in ChunkData \ {""}

\* C29: after the error event that a failed read of the stream ends with,
\* the turn writes an error render and stops: the update it has sent is
\* that render, no step taken while it is written replaces partial text a
\* message of the thread already shows, and no assistant message is
\* committed.
C29_PartialTextKept ==
    /\ [](pc = "w_errorRender" => commits = 0)
    /\ [][/\ (pc # "w_errorRender" /\ pc' = "w_errorRender")
                  => lastIssued' = Issue("update", lastMessageTs, errorMessage("Agent Error"))
          /\ pc = "w_errorRender"
                  => /\ commits' = commits
                     /\ \A ts \in 1..Len(slackMsgs) :
                           ShowsPartialText(slackMsgs[ts])
                               => ShowsPartialText(slackMsgs'[ts])]_vars


\* the positions of the newlines of a text
NewlinesOf(text) == {i \in 1..Len(text) : text[i] = "n"}

\* the text between position from and the next newline, or the end
LineFrom(text, from) ==
    LET ends == {i \in NewlinesOf(text) : i >= from}
        stop == IF ends = {} THEN Len(text) + 1
                ELSE CHOOSE i \in ends : \A j \in ends : i <= j
    IN  SubSeq(text, from, stop - 1)

\* the positions at which the lines of a text start: the lines that a
\* newline ends, and with atEnd the text after the last newline as well
LineStarts(text, atEnd) ==
    {from \in 1..(Len(text) + 1) :
        /\ from = 1 \/ text[from - 1] = "n"
        /\ atEnd \/ \E i \in NewlinesOf(text) : i >= from}

\* the lines among them that are well-formed JSON
WellFormedStarts(text, atEnd) ==
    {from \in LineStarts(text, atEnd) : ParsesAsJson(Trim(LineFrom(text, from)))}

RECURSIVE InOrder(_)
InOrder(set) ==
    IF set = {} THEN <<>>
    ELSE LET first == CHOOSE i \in set : \A j \in set : i <= j
         IN  <<first>> \o InOrder(set \ {first})

\* the events of the well-formed lines of a text, in the order of the lines
EventsOfText(text, atEnd) ==
    LET starts == InOrder(WellFormedStarts(text, atEnd))
    IN  [i \in 1..Len(starts) |-> JsonParse(Trim(LineFrom(text, starts[i])))]

\* C30: a line of the stream that is not valid JSON produces no event and
\* does not end the stream, and every well-formed line before and after it
\* is yielded, in order: while the stream is read the events yielded are
\* those of the well-formed lines of the text read so far, one for each
\* and in their order; once the stream has ended they include the event of
\* a well-formed last line without a newline; and reading a chunk leaves
\* the generator reading.
C30_MalformedSkipped ==
    /\ [](genPc = "reading" => yielded = EventsOfText(received, FALSE))
    /\ [](genPc = "ended" => yielded = EventsOfText(received, TRUE))
    /\ [][received' # received => genPc' = "reading"]_vars

C30_Witness ==
    /\ genPc = "ended"
    /\ yielded = <<EventADamaged, EventB>>
    /\ received = <<"a1?", "?a2", "n", "x", "n", "B">>

\* C38: createContext on a key that is present removes no context stored
\* under another key, whatever the number of contexts stored.
C38_RecreateKeepsOthers ==
    [][(lastOp'.op = "createContext" /\ HasKey(contexts, lastOp'.key))
          => \A k \in KeysOf(contexts) \ {lastOp'.key} : HasKey(contexts', k)]_vars

\* the inbound messages of the turns that the context of thread k holds
InboundHeld(cs, k) ==
    {t \in TurnIds :
        /\ HasKey(cs, k)
        /\ \E i \in 1..Len(MapGet(cs, k).messages) :
              MapGet(cs, k).messages[i] = createUserMessage(InboundOf(t))}

\* C37: for two turns on one thread interleaved at their awaits, a message
\* a turn has appended to the context of the thread is not discarded by the
\* history initialisation of the other: the step in which
\* initializeContextFromHistory creates the context finds no context with
\* messages under the key, and every inbound message the context held is
\* still in it afterwards.
C37_BackfillKeeps ==
    [][backfills' # backfills
          => LET k == backfills'[Len(backfills')]
             IN  /\ ~ContextExistsFor(contexts, k)
                 /\ InboundHeld(contexts, k) \subseteq InboundHeld(contexts', k)]_vars

\* what the generator has yielded when the bytes arrive as one chunk, and
\* with atEnd when the stream has ended after it
YieldedInOneChunk(bytes, atEnd) ==
    LET drained == DrainLines(Decode(bytes), <<>>)
        last == Trim(drained.buffer)
    IN  IF atEnd /\ last # <<>> /\ ParsesAsJson(last)
        THEN Append(drained.yielded, JsonParse(last))
        ELSE drained.yielded

\* C39: the events yielded depend on the concatenation of the chunks only,
\* not on where the stream is cut into chunks: they are the events yielded
\* for the same bytes delivered as one chunk, which include the event of a
\* last line without newline once the stream has ended.
C39_ChunkingIndependent ==
    /\ genPc = "reading" => yielded = YieldedInOneChunk(streamed, FALSE)
    /\ genPc = "ended" => yielded = YieldedInOneChunk(streamed, TRUE)

\* the context of thread k is stored and was last updated at time t
LastUpdatedAt(k, t) ==
    HasKey(contexts, k) /\ MapGet(contexts, k).lastUpdated = t

\* C31: with time passing and the sweep timer firing again and again, a
\* context that is not mutated any more is eventually removed (within the
\* time modelled: its expiry lies before the end of the clock), and a sweep
\* never removes a context whose last mutation is no longer ago than the
\* TTL.
C31_ExpiryLive ==
    /\ \A k \in {"k1", "k2"} : \A t \in 0..MaxTime :
          (LastUpdatedAt(k, t) /\ t + contextTtlMs < MaxTime)
              ~> ~LastUpdatedAt(k, t)
    /\ [][lastOp'.op = "cleanupExpiredContexts"
            => \A k \in {"k1", "k2"} :
                  (HasKey(contexts, k)
                     /\ now - MapGet(contexts, k).lastUpdated <= contextTtlMs)
                      => /\ HasKey(contexts', k)
                         /\ MapGet(contexts', k) = MapGet(contexts, k)]_vars

C31_Witness ==
    /\ lastOp.op = "cleanupExpiredContexts"
    /\ lastOp.removed = 1
    /\ now = 2
    /\ ~HasKey(contexts, "k1")
    /\ LastUpdatedAt("k2", 1)

\* the error responses among the responses of call()
IsError(response) == response.status = "error"

\* C33: callWithRetry calls call() at most retryCount times; it returns the
\* first response that is no error, with no call after it; when retryCount
\* calls have returned errors it returns the last of them; and it never
\* throws.
C33_RetryLoop ==
    /\ mcpPc \in {"idle", "calling", "waiting", "returned"}
    /\ Len(mcpResponses) <= retryCount
    /\ \A i \in 1..Len(mcpResponses) :
          ~IsError(mcpResponses[i])
              => /\ i = Len(mcpResponses)
                 /\ mcpPc = "returned"
                 /\ mcpReturned = mcpResponses[i]
    /\ (mcpPc = "returned" /\ IsError(mcpReturned))
          => /\ Len(mcpResponses) = retryCount
             /\ \A i \in 1..Len(mcpResponses) : IsError(mcpResponses[i])
             /\ mcpReturned = mcpResponses[Len(mcpResponses)]

C33_Witness ==
    /\ mcpPc = "returned"
    /\ retryCount = 2
    /\ mcpResponses = <<[status |-> "error", code |-> "server_error"], CallFailed>>
    /\ mcpReturned = CallFailed

\* the step in which a turn ends successfully
TurnSucceeds == outcome # "done" /\ outcome' = "done"

ErrorRenderWritten ==
    /\ pc = "done"
    /\ outcome = "failed"
    /\ lastMessageTs # NoTs
    /\ slackMsgs[lastMessageTs] = errorMessage("Agent Error")

\* C35: once the error render of case 'error' is written, the turn sends no
\* further update to any message, whatever update was scheduled before
C35_ErrorRenderLast ==
    [][ErrorRenderWritten => lastIssued' = lastIssued]_vars

\* the interstitial message of a 'tool_calls' event is the active one and no
\* delta has arrived since the event reset the text: a timer still armed was
\* armed by a delta that came before the event
ToolMessageActive ==
    /\ lastMessageTs # NoTs
    /\ lastMessageTs # thinkingMessageTs
    /\ accumulatedContent = <<>>

\* the summary case 'tool_result' writes to the active message
ToolSummary == aiResponseMessage(<<"Tool klaar.">>, NoMeta)

\* C36: an update scheduled by a delta before a 'tool_calls' event is never
\* sent to the interstitial message the event posts, and no such update (it
\* renders the text the event reset) replaces a tool-result summary written
\* afterwards
C36_PhaseKept ==
    /\ [][(ToolMessageActive /\ armedTimers' < armedTimers)
            => thrCalls' = thrCalls]_vars
    /\ [][\A ts \in 1..Len(slackMsgs) :
             (slackMsgs[ts] = ToolSummary /\ thrCalls' # thrCalls)
                => slackMsgs'[ts] # aiResponseMessage(<<" ">>, NoMeta)]_vars

\* the turn has returned and no callback of its timers is armed or in flight
TurnSettled ==
    /\ pc = "done"
    /\ outcome \in {"done", "failed"}
    /\ armedTimers = 0
    /\ thrCalls = <<>>

\* C32: a started turn returns, after the final update and the commit or after
\* an error render was sent, and each of its timers runs and settles
C32_TurnTerminates ==
    /\ (pc # "idle") ~> TurnSettled
    /\ [](outcome = "done" => finalRender = "ok" /\ commits = 1)
    /\ [](outcome = "failed" => errorRenders >= 1)

\* a turn that streamed two deltas has returned after its commit and its
\* timer has settled
C32_Witness ==
    /\ TurnSettled
    /\ outcome = "done"
    /\ commits = 1
    /\ accumulatedContent = <<"Hel", "lo">>
    /\ ~updateScheduled

=============================================================================
